---- MODULE Spec2Model ----
(***************************************************************************)
(* A model of the PLONK prover of std/compress/lzss/compress.go (package   *)
(* plonk, lines 241-863): Prove, commitToLRO, commitToQuotient,            *)
(* evaluateLROSmallDomain and computeLinearizedPolynomial.                 *)
(*                                                                         *)
(* Field elements (fr.Element) are the integers modulo the small prime P;  *)
(* the small evaluation domain (pk.Domain[0]) is the subgroup of order 4   *)
(* generated by Generator.  Arrays are functions over 0..len-1, so that    *)
(* indices are the indices of the Go source.                               *)
(***************************************************************************)
EXTENDS Integers, Sequences, FiniteSets, TLC

VARIABLES
    pc,          \* position of the calling path (Prove, or the function under check)
    spr,         \* the constraint system (cs.SparseR1CS) given to Prove
    solution,    \* the solution vector [ public | secret | internal ]
    lro,         \* evaluationLDomainSmall, evaluationRDomainSmall, evaluationODomainSmall
    force,       \* opt.Force
    fullWitness, \* fullWitness: the public then the secret inputs
    proof,       \* the Proof object Prove fills
    ret,         \* what Prove returned: the proof pointer and the error
    fs,          \* the Fiat-Shamir transcript
    task,        \* the forked commitment tasks of commitToLRO and commitToQuotient
    cerr,        \* err0, err1, err2 of commitToLRO and of commitToQuotient
    heap,        \* the backing arrays of the slices: handle -> contents
    poly,        \* the iop.Polynomial objects: name -> slice and form
    hist         \* history (ghost) record: values at call time, used only by the properties

proverVars == <<force, fullWitness, proof, ret, fs, task, cerr, heap, poly>>
vars == <<pc, spr, solution, lro, proverVars, hist>>

-----------------------------------------------------------------------------
(* fr.Element: arithmetic modulo P *)

P == 13
F == 0..(P - 1)

Add(a, b) == (a + b) % P
Sub(a, b) == (a - b + P) % P
Neg(a) == (P - a) % P
Mul(a, b) == (a * b) % P
Double(a) == (2 * a) % P

RECURSIVE Exp(_, _)
Exp(a, e) == IF e = 0 THEN 1 ELSE Mul(a, Exp(a, e - 1))

\* fr.Element.Inverse: the inverse of 0 is 0
Inverse(a) == IF a = 0 THEN 0 ELSE Exp(a, P - 2)

-----------------------------------------------------------------------------
(* arrays ([]fr.Element): functions over 0..len-1 *)

ArrLen(a) == Cardinality(DOMAIN a)
MakeArr(n) == [i \in 0..(n - 1) |-> 0]
FromSeq(s) == [i \in 0..(Len(s) - 1) |-> s[i + 1]]

-----------------------------------------------------------------------------
(* the small domain pk.Domain[0] *)

Generator == 5
CosetShift == 2
DomainPoints == [i \in 0..3 |-> Exp(Generator, i)]
Cardinality0 == ArrLen(DomainPoints)

-----------------------------------------------------------------------------
(* constraint systems: gates name three wires and carry their selectors *)

MinusOne == P - 1

Gate(L, R, O, ql, qr, qm, qo, qk) ==
    [L |-> L, R |-> R, O |-> O, ql |-> ql, qr |-> qr, qm |-> qm, qo |-> qo, qk |-> qk]

\* x2 = x0*x1 ; x3 = x2 + x1 (one public, one secret, two internal wires, one padding row)
CircuitA == [Public |-> 1, Secret |-> 1, NbWires |-> 4,
             Constraints |-> FromSeq(<<Gate(0, 1, 2, 0, 0, 1, MinusOne, 0),
                                       Gate(2, 1, 3, 1, 1, 0, MinusOne, 0)>>)]
\* x3 = x0*x2 ; x1 = x3 + 1 (two public wires, no padding row)
CircuitB == [Public |-> 2, Secret |-> 1, NbWires |-> 4,
             Constraints |-> FromSeq(<<Gate(0, 2, 3, 0, 0, 1, MinusOne, 0),
                                       Gate(3, 3, 1, 1, 0, 0, MinusOne, 1)>>)]
\* x2 = 2*x1 + x0 + 3 (two padding rows)
CircuitC == [Public |-> 1, Secret |-> 1, NbWires |-> 3,
             Constraints |-> FromSeq(<<Gate(1, 0, 2, 2, 1, 0, MinusOne, 3)>>)]

Circuits == {CircuitA, CircuitB, CircuitC}

NbConstraints(c) == ArrLen(c.Constraints)

-----------------------------------------------------------------------------
(* evaluateLROSmallDomain, lines 730-763 *)

\* for i := 0; i < len(spr.Public); i++
RECURSIVE LROPublicLoop(_, _, _, _)
LROPublicLoop(i, c, s0, st) ==
    IF i < c.Public
    THEN LROPublicLoop(i + 1, c, s0,
            [st EXCEPT !.l[i] = st.solution[i], !.r[i] = s0, !.o[i] = s0])
    ELSE st

\* for i := 0; i < len(spr.Constraints); i++
RECURSIVE LROConstraintLoop(_, _, _, _)
LROConstraintLoop(i, c, offset, st) ==
    IF i < NbConstraints(c)
    THEN LROConstraintLoop(i + 1, c, offset,
            [st EXCEPT !.l[offset + i] = st.solution[c.Constraints[i].L],
                       !.r[offset + i] = st.solution[c.Constraints[i].R],
                       !.o[offset + i] = st.solution[c.Constraints[i].O]])
    ELSE st

\* for i := 0; i < s-offset; i++
RECURSIVE LROPaddingLoop(_, _, _, _, _)
LROPaddingLoop(i, s, offset, s0, st) ==
    IF i < s - offset
    THEN LROPaddingLoop(i + 1, s, offset, s0,
            [st EXCEPT !.l[offset + i] = s0, !.r[offset + i] = s0, !.o[offset + i] = s0])
    ELSE st

\* A plausible slip: the padding rows are left as make() zeroed them.
evaluateLROSmallDomainNoPadding(c, s, sol) ==
    LET st0 == [l |-> MakeArr(s), r |-> MakeArr(s), o |-> MakeArr(s), solution |-> sol]
        st1 == LROPublicLoop(0, c, sol[0], st0)
    IN  LROConstraintLoop(0, c, c.Public, st1)

\* the three columns, and the solution vector as the call leaves it
evaluateLROSmallDomain(c, s, sol) ==
    LET st0 == [l |-> MakeArr(s), r |-> MakeArr(s), o |-> MakeArr(s), solution |-> sol]
        s0  == sol[0]
        st1 == LROPublicLoop(0, c, s0, st0)
        st2 == LROConstraintLoop(0, c, c.Public, st1)
    IN  LROPaddingLoop(0, s, c.Public + NbConstraints(c), s0, st2)

NoLRO == [l |-> <<>>, r |-> <<>>, o |-> <<>>]

-----------------------------------------------------------------------------
(* The Proof object (lines 268-284); a digest or opening not yet written   *)
(* holds Go's zero value.                                                  *)

Zero == "zero"
Nil == "nil"

EmptyProof ==
    [LRO |-> [i \in 0..2 |-> Zero], Z |-> Zero, H |-> [i \in 0..2 |-> Zero],
     BatchedProof |-> Zero, ZShiftedOpening |-> Zero]

-----------------------------------------------------------------------------
(* Backing arrays.  A cell records which polynomial the array holds, in    *)
(* which basis and layout, and its length and capacity; an in-place        *)
(* transform rewrites the cell, so a second slice of the same array sees   *)
(* it.  iop.NewPolynomial and WrapMe keep the slice they are given;        *)
(* the transforms work in place and grow the slice with append, which      *)
(* moves to a new array when the capacity is exceeded.                     *)

Cell(data, basis, layout, len) ==
    [data |-> data, basis |-> basis, layout |-> layout, len |-> len, cap |-> len]

\* the large domain pk.Domain[1] has a multiple of the small domain's cardinality
Cardinality1 == 8 * Cardinality0

\* make([]fr.Element, n): a new zeroed array under handle h
Alloc(hp, h, data, basis, len) ==
    [x \in DOMAIN hp \cup {h} |-> IF x = h THEN Cell(data, basis, "Regular", len) ELSE hp[x]]

\* iop.NewPolynomial(coeffs, form): the slice is kept, not copied
NewPolynomial(h, basis, layout) == [buf |-> h, basis |-> basis, layout |-> layout]

\* resize: append zeros up to newLen
Resize(hp, p, newLen) ==
    IF newLen <= hp[p.buf].len THEN [heap |-> hp, p |-> p]
    ELSE IF newLen <= hp[p.buf].cap
         THEN [heap |-> [hp EXCEPT ![p.buf].len = newLen], p |-> p]
         ELSE LET h2 == p.buf \o ".grown"
              IN  [heap |-> [x \in DOMAIN hp \cup {h2} |->
                                IF x = h2 THEN [hp[p.buf] EXCEPT !.len = newLen, !.cap = newLen]
                                ELSE hp[x]],
                   p |-> [p EXCEPT !.buf = h2]]

\* p.ToCanonical(p, d).ToRegular(p): a polynomial already canonical and regular is left alone
ToCanonicalRegular(hp, p) ==
    IF p.basis = "Canonical" /\ p.layout = "Regular" THEN [heap |-> hp, p |-> p]
    ELSE [heap |-> [hp EXCEPT ![p.buf].basis = "Canonical", ![p.buf].layout = "Regular"],
          p |-> [p EXCEPT !.basis = "Canonical", !.layout = "Regular"]]

\* p.ToLagrangeCoset(p, &pk.Domain[1])
ToLagrangeCoset(hp, p) ==
    LET g == Resize(hp, p, Cardinality1)
    IN  [heap |-> [g.heap EXCEPT ![g.p.buf].basis = "LagrangeCoset", ![g.p.buf].layout = "Regular"],
         p |-> [g.p EXCEPT !.basis = "LagrangeCoset", !.layout = "Regular"]]

\* kzg.Commit(coeffs, srs): the digest of what the array holds now
Commit(cell) == <<"Comm", cell.data, cell.basis, cell.layout>>

-----------------------------------------------------------------------------
(* The proving key (read by Prove): its vectors live in arrays of their own *)

PkVectors == {"pk.Ql", "pk.Qr", "pk.Qm", "pk.Qo", "pk.LQk", "pk.CQk",
              "pk.S1Canonical", "pk.S2Canonical", "pk.S3Canonical"}
PkCells == PkVectors \cup {"pk.Domain[0]", "pk.Domain[1]", "pk.Vk"}

PkHeap ==
    [h \in PkCells |->
        IF h = "pk.LQk" THEN Cell(h, "Lagrange", "Regular", Cardinality0)
        ELSE IF h \in PkVectors THEN Cell(h, "Canonical", "Regular", Cardinality0)
        ELSE Cell(h, "fixed", "fixed", 1)]

-----------------------------------------------------------------------------
(* fiatshamir.Transcript: per challenge the data bound to it, the          *)
(* challenges computed so far, and the order of all of it                  *)

Challenges == <<"gamma", "beta", "alpha", "zeta">>
ChallengeNames == {Challenges[i] : i \in 1..Len(Challenges)}
ChallengeIndex(name) == CHOOSE i \in 1..Len(Challenges) : Challenges[i] = name

NewTranscript ==
    [bindings |-> [c \in ChallengeNames |-> <<>>], computed |-> <<>>, log |-> <<>>, err |-> Nil]

IsComputed(t, name) == \E i \in 1..Len(t.computed) : t.computed[i] = name

\* fs.Bind(challenge, data): refused once the challenge is computed
Bind(t, name, item) ==
    IF t.err # Nil THEN t
    ELSE IF IsComputed(t, name) THEN [t EXCEPT !.err = "err:bind"]
    ELSE [t EXCEPT !.bindings[name] = Append(@, item),
                   !.log = Append(@, <<"bind", name, item>>)]

RECURSIVE BindAll(_, _, _)
BindAll(t, name, items) ==
    IF items = <<>> THEN t ELSE BindAll(Bind(t, name, Head(items)), name, Tail(items))

\* fs.ComputeChallenge(challenge): needs the previous challenge; computed once, then cached
ComputeChallenge(t, name) ==
    IF t.err # Nil THEN t
    ELSE IF IsComputed(t, name) THEN t
    ELSE IF ChallengeIndex(name) > 1 /\ ~IsComputed(t, Challenges[ChallengeIndex(name) - 1])
         THEN [t EXCEPT !.err = "err:challenge"]
    ELSE [t EXCEPT !.computed = Append(@, name), !.log = Append(@, <<"challenge", name>>)]

\* bindPublicData: the verification key's data, then the public inputs
bindPublicData(t, name, vk, public) ==
    BindAll(Bind(t, name, vk), name, public)

\* deriveRandomness: binds the points in order, then computes the challenge
deriveRandomness(t, name, points) ==
    ComputeChallenge(BindAll(t, name, points), name)

-----------------------------------------------------------------------------
(* the prover's variables while a single function is under check *)

IdleProver ==
    /\ force = FALSE
    /\ fullWitness = <<>>
    /\ proof = EmptyProof
    /\ ret = [proof |-> "unset", err |-> Nil]
    /\ fs = NewTranscript
    /\ task = <<>>
    /\ cerr = <<>>
    /\ heap = <<>>
    /\ poly = <<>>

-----------------------------------------------------------------------------
(* spr.Solve: the gates are visited in order; a gate whose output wire is   *)
(* not solved yet defines it, a gate whose wires are all solved is checked. *)
(* The solver stops with an error at the first gate that fails, or at gate  *)
(* failAt (a failing hint), and returns the solution as far as it got.      *)

GateValue(g, l, r, o) ==
    Add(Add(Add(Add(Mul(g.ql, l), Mul(g.qr, r)), Mul(g.qm, Mul(l, r))), Mul(g.qo, o)), g.qk)

GateHolds(g, sol) == GateValue(g, sol[g.L], sol[g.R], sol[g.O]) = 0

RECURSIVE SolveLoop(_, _, _, _, _)
SolveLoop(j, c, sol, solved, failAt) ==
    IF j >= NbConstraints(c) THEN [solution |-> sol, err |-> Nil]
    ELSE IF j = failAt THEN [solution |-> sol, err |-> "err:solve"]
    ELSE LET g == c.Constraints[j]
         IN  IF g.O \in solved
             THEN IF GateHolds(g, sol)
                  THEN SolveLoop(j + 1, c, sol, solved, failAt)
                  ELSE [solution |-> sol, err |-> "err:solve"]
             ELSE LET rest == GateValue([g EXCEPT !.qo = 0], sol[g.L], sol[g.R], 0)
                      out  == Mul(Neg(rest), Inverse(g.qo))
                  IN  SolveLoop(j + 1, c, [sol EXCEPT ![g.O] = out], solved \cup {g.O}, failAt)

Solve(c, w, failAt) ==
    LET nw   == c.Public + c.Secret
        sol0 == [i \in 0..(c.NbWires - 1) |-> IF i < nw THEN w[i] ELSE 0]
    IN  SolveLoop(0, c, sol0, 0..(nw - 1), failAt)

\* for i := len(spr.Public) + len(spr.Secret); i < len(solution); i++ (lines 310-313)
RECURSIVE PlaceholderLoop(_, _, _)
PlaceholderLoop(i, sol, r) ==
    IF i < ArrLen(sol)
    THEN PlaceholderLoop(i + 1, [sol EXCEPT ![i] = r], Double(r))
    ELSE sol

\* A plausible slip: the loop starts after the public inputs only.
FillPlaceholdersFromPublic(c, sol, r) == PlaceholderLoop(c.Public, sol, r)

FillPlaceholders(c, sol, r) == PlaceholderLoop(c.Public + c.Secret, sol, r)

-----------------------------------------------------------------------------
(* Prove, lines 287-675 *)

MaxWitnessValue == 1
WitnessValues == 0..MaxWitnessValue
MaxRandomValue == 2
RandomValues == 0..MaxRandomValue

Calls == {"lro", "h"}
Tasks == {"lro0", "lro1", "h0", "h1"}
TaskCall(t) == IF t \in {"lro0", "lro1"} THEN "lro" ELSE "h"
TaskIndex(t) == IF t \in {"lro0", "h0"} THEN 0 ELSE 1

Put(f, k, v) == [x \in DOMAIN f \cup {k} |-> IF x = k THEN v ELSE f[x]]

NoTask == [st |-> "none", arg |-> "none"]

Init ==
    /\ pc = "solve"
    /\ spr \in Circuits
    /\ force \in BOOLEAN
    /\ fullWitness \in [0..(spr.Public + spr.Secret - 1) -> WitnessValues]
    /\ solution = <<>>
    /\ lro = NoLRO
    /\ proof = EmptyProof
    /\ ret = [proof |-> "unset", err |-> Nil]
    /\ fs = NewTranscript
    /\ task = [t \in Tasks |-> NoTask]
    /\ cerr = [lro |-> [e |-> [i \in 0..2 |-> Nil], ret |-> "unset"],
               h |-> [e |-> [i \in 0..2 |-> Nil], ret |-> "unset"],
               lpoly |-> Nil]
    /\ heap = PkHeap
    /\ poly = <<>>
    /\ hist = [solved |-> <<>>, solveErr |-> "unset", rnd |-> 0,
               outcome |-> [c \in Calls |-> [i \in 0..2 |-> "pending"]],
               unabsorbed |-> {},
               derivedWith |-> [c \in ChallengeNames |-> {}],
               linRead |-> <<>>, openRead |-> <<>>]

\* return p, e
Return(p, e) ==
    /\ pc' = "returned"
    /\ ret' = [proof |-> p, err |-> e]

\* lines 300-315: solve, and with opt.Force fill the internal wires
ProveSolve ==
    /\ pc = "solve"
    /\ \E failAt \in 0..NbConstraints(spr) :
        LET out == Solve(spr, fullWitness, failAt)
        IN  IF out.err # Nil
            THEN IF ~force
                 THEN /\ Return(Nil, out.err)
                      /\ solution' = out.solution
                      /\ hist' = [hist EXCEPT !.solved = out.solution, !.solveErr = out.err]
                 ELSE \E r \in RandomValues :
                      /\ solution' = FillPlaceholders(spr, out.solution, r)
                      /\ hist' = [hist EXCEPT !.solved = out.solution, !.solveErr = out.err,
                                              !.rnd = r]
                      /\ pc' = "eval_lro"
                      /\ ret' = ret
            ELSE /\ solution' = out.solution
                 /\ hist' = [hist EXCEPT !.solved = out.solution, !.solveErr = Nil]
                 /\ pc' = "eval_lro"
                 /\ ret' = ret
    /\ UNCHANGED <<spr, lro, force, fullWitness, proof, fs, task, cerr, heap, poly>>

\* lines 317-329: extract l, r, o and bring them to canonical form in place
ProveEvalLRO ==
    /\ pc = "eval_lro"
    /\ LET out == evaluateLROSmallDomain(spr, Cardinality0, solution)
           h0  == Alloc(Alloc(Alloc(heap, "evalL", "l", "Lagrange", Cardinality0),
                              "evalR", "r", "Lagrange", Cardinality0),
                        "evalO", "o", "Lagrange", Cardinality0)
           cl  == ToCanonicalRegular(h0, NewPolynomial("evalL", "Lagrange", "Regular"))
           cr  == ToCanonicalRegular(cl.heap, NewPolynomial("evalR", "Lagrange", "Regular"))
           co  == ToCanonicalRegular(cr.heap, NewPolynomial("evalO", "Lagrange", "Regular"))
       IN  /\ lro' = [l |-> out.l, r |-> out.r, o |-> out.o]
           /\ solution' = out.solution
           /\ heap' = co.heap
           /\ poly' = Put(Put(Put(poly, "l", cl.p), "r", cr.p), "o", co.p)
    /\ pc' = "lro_go"
    /\ UNCHANGED <<spr, force, fullWitness, proof, ret, fs, task, cerr, hist>>

-----------------------------------------------------------------------------
(* commitToLRO (lines 677-702) and commitToQuotient (lines 704-728): the    *)
(* same code on proof.LRO and proof.H.  c names the call, "lro" or "h".     *)

Slot(c) == IF c = "lro" THEN "LRO" ELSE "H"
CallArgs(c) ==
    IF c = "lro" THEN <<poly["l"].buf, poly["r"].buf, poly["o"].buf>>
    ELSE <<"h.0", "h.1", "h.2">>
CommitError(c, i) == "err:commit:" \o Slot(c) \o ToString(i)

\* proof.<slot>[i], err_i = kzg.Commit(arg, srs, n)
WriteCommit(c, i, arg, ok) ==
    /\ proof' = [proof EXCEPT ![Slot(c)][i] = IF ok THEN Commit(heap[arg]) ELSE Zero]
    /\ cerr' = [cerr EXCEPT ![c].e[i] = IF ok THEN Nil ELSE CommitError(c, i)]
    /\ hist' = [hist EXCEPT !.outcome[c][i] = IF ok THEN "ok" ELSE "fail",
                            !.unabsorbed = IF ok THEN @ \cup {Commit(heap[arg])} ELSE @]

\* the two go statements
CommitFork(c) ==
    /\ pc = c \o "_go"
    /\ task' = [t \in Tasks |->
                   IF TaskCall(t) = c
                   THEN [st |-> "ready", arg |-> CallArgs(c)[TaskIndex(t) + 1]]
                   ELSE task[t]]
    /\ pc' = c \o "_commit2"
    /\ UNCHANGED <<spr, solution, lro, force, fullWitness, proof, ret, fs, cerr, heap, poly, hist>>

\* the calling path's commitment; on failure the function returns err2 at once
CommitOwn(c) ==
    /\ pc = c \o "_commit2"
    /\ \E ok \in BOOLEAN :
        /\ WriteCommit(c, 2, CallArgs(c)[3], ok)
        /\ pc' = IF ok THEN c \o "_wait0" ELSE c \o "_ret"
    /\ UNCHANGED <<spr, solution, lro, force, fullWitness, ret, fs, task, heap, poly>>

\* <-chCommit0 and <-chCommit1: a receive on a closed channel
CommitWait(c, i) ==
    /\ pc = c \o "_wait" \o ToString(i)
    /\ \E t \in Tasks : TaskCall(t) = c /\ TaskIndex(t) = i /\ task[t].st = "done"
    /\ pc' = IF i = 0 THEN c \o "_wait1" ELSE c \o "_ret"
    /\ UNCHANGED <<spr, solution, lro, proverVars, hist>>

\* A plausible slip: only the first forked task's error is looked at.
CommitResultFirstOnly(c) ==
    IF cerr[c].e[2] # Nil THEN cerr[c].e[2] ELSE cerr[c].e[0]

\* the value the function returns: err2, else err0, else err1
CommitResult(c) ==
    IF cerr[c].e[2] # Nil THEN cerr[c].e[2]
    ELSE IF cerr[c].e[0] # Nil THEN cerr[c].e[0]
    ELSE cerr[c].e[1]

CommitReturn(c) ==
    /\ pc = c \o "_ret"
    /\ cerr' = [cerr EXCEPT ![c].ret = CommitResult(c)]
    /\ pc' = c \o "_check"
    /\ UNCHANGED <<spr, solution, lro, force, fullWitness, proof, ret, fs, task, heap, poly, hist>>

\* a forked task: the commitment, then close(chCommit)
TaskCommit(t) ==
    /\ task[t].st = "ready"
    /\ \E ok \in BOOLEAN : WriteCommit(TaskCall(t), TaskIndex(t), task[t].arg, ok)
    /\ task' = [task EXCEPT ![t].st = "committed"]
    /\ UNCHANGED <<pc, spr, solution, lro, force, fullWitness, ret, fs, heap, poly>>

TaskClose(t) ==
    /\ task[t].st = "committed"
    /\ task' = [task EXCEPT ![t].st = "done"]
    /\ UNCHANGED <<pc, spr, solution, lro, force, fullWitness, proof, ret, fs, cerr, heap, poly, hist>>

commitToLRO_Fork == CommitFork("lro")
commitToLRO_Own == CommitOwn("lro")
commitToLRO_Wait == \E i \in 0..1 : CommitWait("lro", i)
commitToLRO_Return == CommitReturn("lro")
commitToQuotient_Fork == CommitFork("h")
commitToQuotient_Own == CommitOwn("h")
commitToQuotient_Wait == \E i \in 0..1 : CommitWait("h", i)
commitToQuotient_Return == CommitReturn("h")

\* lines 333-335: if err := commitToLRO(...); err != nil { return nil, err }
ProveAfterCommitToLRO ==
    /\ pc = "lro_check"
    /\ IF cerr["lro"].ret # Nil
       THEN Return(Nil, cerr["lro"].ret)
       ELSE pc' = "bind_public" /\ ret' = ret
    /\ UNCHANGED <<spr, solution, lro, force, fullWitness, proof, fs, task, cerr, heap, poly, hist>>

-----------------------------------------------------------------------------
(* Prove, continued: the challenges gamma and beta (lines 337-354) *)

\* a transcript whose hash failed to absorb
HashFailed(t) == [t EXCEPT !.err = "err:hash"]

\* fullWitness[:len(spr.Public)]
PublicInputs == [i \in 1..spr.Public |-> <<"public", i - 1, fullWitness[i - 1]>>]

VkData == <<"vk", heap["pk.Vk"]>>

\* what a step leaves unabsorbed once it has bound the points
Absorb(points) == hist.unabsorbed \ {points[i] : i \in 1..Len(points)}

\* a step of Prove on the transcript: on error return p, err; else go on to next
TranscriptStep(t, p, next) ==
    /\ fs' = t
    /\ IF t.err # Nil THEN Return(p, t.err) ELSE pc' = next /\ ret' = ret

\* line 340
ProveBindPublicData ==
    /\ pc = "bind_public"
    /\ \E ok \in BOOLEAN :
        TranscriptStep(IF ok THEN bindPublicData(fs, "gamma", VkData, PublicInputs)
                       ELSE HashFailed(fs), Nil, "derive_gamma")
    /\ UNCHANGED <<spr, solution, lro, force, fullWitness, proof, task, cerr, heap, poly, hist>>

\* A plausible slip: the commitments are given in another order.
GammaPointsSwapped == <<proof.LRO[1], proof.LRO[0], proof.LRO[2]>>

\* &proof.LRO[0], &proof.LRO[1], &proof.LRO[2]
GammaPoints == <<proof.LRO[0], proof.LRO[1], proof.LRO[2]>>

\* line 343
ProveDeriveGamma ==
    /\ pc = "derive_gamma"
    /\ \E ok \in BOOLEAN :
        /\ TranscriptStep(IF ok THEN deriveRandomness(fs, "gamma", GammaPoints)
                          ELSE HashFailed(fs), Nil, "derive_beta")
        /\ hist' = IF ok THEN [hist EXCEPT !.unabsorbed = Absorb(GammaPoints),
                                           !.derivedWith["gamma"] = Absorb(GammaPoints)]
                   ELSE hist
    /\ UNCHANGED <<spr, solution, lro, force, fullWitness, proof, task, cerr, heap, poly>>

\* line 349
ProveDeriveBeta ==
    /\ pc = "derive_beta"
    /\ \E ok \in BOOLEAN :
        /\ TranscriptStep(IF ok THEN ComputeChallenge(fs, "beta") ELSE HashFailed(fs),
                          Nil, "build_z")
        /\ hist' = IF ok THEN [hist EXCEPT !.derivedWith["beta"] = hist.unabsorbed] ELSE hist
    /\ UNCHANGED <<spr, solution, lro, force, fullWitness, proof, task, cerr, heap, poly>>

-----------------------------------------------------------------------------
(* Prove, continued: Z and alpha (lines 356-383) *)

\* a step that may fail: on failure return p, e; else go on to next
FallibleStep(ok, p, e, next) ==
    IF ok THEN pc' = next /\ ret' = ret ELSE Return(p, e)

\* lines 360-370: the copies of l, r, o are arrays of their own, and so is Z
ProveBuildZ ==
    /\ pc = "build_z"
    /\ \E ok \in BOOLEAN :
        /\ FallibleStep(ok, "proof", "err:ratio", "commit_z")
        /\ heap' = IF ok THEN Alloc(heap, "z", "z", "Canonical", Cardinality0) ELSE heap
        /\ poly' = IF ok THEN Put(poly, "z", NewPolynomial("z", "Canonical", "Regular")) ELSE poly
    /\ UNCHANGED <<spr, solution, lro, force, fullWitness, proof, fs, task, cerr, hist>>

\* lines 374-377
ProveCommitZ ==
    /\ pc = "commit_z"
    /\ \E ok \in BOOLEAN :
        /\ FallibleStep(ok, "proof", "err:commit:Z", "derive_alpha")
        /\ proof' = [proof EXCEPT !.Z = IF ok THEN Commit(heap[poly["z"].buf]) ELSE Zero]
        /\ hist' = IF ok THEN [hist EXCEPT !.unabsorbed = @ \cup {Commit(heap[poly["z"].buf])}]
                   ELSE hist
    /\ UNCHANGED <<spr, solution, lro, force, fullWitness, fs, task, cerr, heap, poly>>

\* A plausible slip: alpha is derived without the commitment to Z.
AlphaPointsNone == <<>>

\* &proof.Z
AlphaPoints == <<proof.Z>>

\* line 380
ProveDeriveAlpha ==
    /\ pc = "derive_alpha"
    /\ \E ok \in BOOLEAN :
        /\ TranscriptStep(IF ok THEN deriveRandomness(fs, "alpha", AlphaPoints)
                          ELSE HashFailed(fs), "proof", "qk")
        /\ hist' = IF ok THEN [hist EXCEPT !.unabsorbed = Absorb(AlphaPoints),
                                           !.derivedWith["alpha"] = Absorb(AlphaPoints)]
                   ELSE hist
    /\ UNCHANGED <<spr, solution, lro, force, fullWitness, proof, task, cerr, heap, poly>>

-----------------------------------------------------------------------------
(* Prove, continued: the three identities and the quotient (lines 385-544) *)

\* copy(dst, src): the array now holds other values
CopyInto(hp, h, data) == [hp EXCEPT ![h].data = data]
\* pk.Domain[0].FFTInverse(a, fft.DIF): in place, the result is bit-reversed
FFTInverseDIF(hp, h) == [hp EXCEPT ![h].basis = "Canonical", ![h].layout = "BitReverse"]
\* fft.BitReverse(a): in place
BitReverse(hp, h) ==
    [hp EXCEPT ![h].layout = IF @ = "Regular" THEN "BitReverse" ELSE "Regular"]

\* A plausible slip: qk is completed in the proving key's own vector.
MakeQkCompletedInPlace(hp) == [heap |-> hp, buf |-> "pk.LQk"]

\* line 386: qkCompletedCanonical := make([]fr.Element, pk.Domain[0].Cardinality)
MakeQkCompleted(hp) ==
    [heap |-> Alloc(hp, "qk", "zero", "Lagrange", Cardinality0), buf |-> "qk"]

\* lines 385-390
ProveCompleteQk ==
    /\ pc = "qk"
    /\ LET m  == MakeQkCompleted(heap)
           h1 == CopyInto(m.heap, m.buf, <<"qkCompleted", PublicInputs, m.heap["pk.LQk"].data>>)
           h2 == BitReverse(FFTInverseDIF(h1, m.buf), m.buf)
       IN  /\ heap' = h2
           /\ poly' = Put(poly, "qk", NewPolynomial(m.buf, "Canonical", "Regular"))
    /\ pc' = "constraints"
    /\ UNCHANGED <<spr, solution, lro, force, fullWitness, proof, ret, fs, task, cerr, hist>>

\* ToLagrangeCoset on each of the named polynomials, in order
RECURSIVE CosetAll(_, _, _)
CosetAll(hp, pl, names) ==
    IF names = <<>> THEN [heap |-> hp, poly |-> pl]
    ELSE LET c == ToCanonicalRegular(hp, pl[Head(names)])
             g == ToLagrangeCoset(c.heap, c.p)
         IN  CosetAll(g.heap, [pl EXCEPT ![Head(names)] = g.p], Tail(names))

\* iop.NewPolynomial(pk.<v>, canReg).WrapMe(0) for each of the named vectors
RECURSIVE WrapAll(_, _)
WrapAll(pl, pairs) ==
    IF pairs = <<>> THEN pl
    ELSE WrapAll(Put(pl, Head(pairs)[1], NewPolynomial(Head(pairs)[2], "Canonical", "Regular")),
                 Tail(pairs))

\* lines 392-423: the gate identity on the coset
ProveConstraints ==
    /\ pc = "constraints"
    /\ LET pl == WrapAll(poly, <<<<"ql", "pk.Ql">>, <<"qr", "pk.Qr">>, <<"qm", "pk.Qm">>,
                                 <<"qo", "pk.Qo">>>>)
           c  == CosetAll(heap, pl, <<"l", "r", "o", "ql", "qr", "qm", "qo", "qk">>)
       IN  heap' = c.heap /\ poly' = c.poly
    /\ \E ok \in BOOLEAN : FallibleStep(ok, "proof", "err:evaluate:constraints", "sub_a")
    /\ UNCHANGED <<spr, solution, lro, force, fullWitness, proof, fs, task, cerr, hist>>

SubOrdering == <<"a", "b", "c", "u", "v", "w">>
SubSource == [a |-> "id", b |-> "id", c |-> "id",
              u |-> "pk.S1Canonical", v |-> "pk.S2Canonical", w |-> "pk.S3Canonical"]
SubPoly == [a |-> "id", b |-> "id", c |-> "id", u |-> "s1", v |-> "s2", w |-> "s3"]

\* lines 425-490: a, b, c over the identity polynomial, u, v, w over s1, s2, s3
ProveSubOrdering(i) ==
    LET x == SubOrdering[i] IN
    /\ pc = "sub_" \o x
    /\ LET hp == IF x = "a" THEN Alloc(heap, "id", "X", "Canonical", Cardinality1) ELSE heap
           pl == IF x \in {"b", "c"} THEN poly
                 ELSE Put(poly, SubPoly[x], NewPolynomial(SubSource[x], "Canonical", "Regular"))
           c  == IF x \in {"b", "c"} THEN [heap |-> hp, poly |-> pl]
                 ELSE CosetAll(hp, pl, <<SubPoly[x]>>)
       IN  heap' = c.heap /\ poly' = c.poly
    /\ \E ok \in BOOLEAN :
        FallibleStep(ok, "proof", "err:evaluate:" \o x,
                     IF i < Len(SubOrdering) THEN "sub_" \o SubOrdering[i + 1] ELSE "ordering")
    /\ UNCHANGED <<spr, solution, lro, force, fullWitness, proof, fs, task, cerr, hist>>

\* lines 492-506: Z and its shift are the same polynomial object, sent to the coset
ProveOrdering ==
    /\ pc = "ordering"
    /\ LET c == CosetAll(heap, poly, <<"z">>) IN heap' = c.heap /\ poly' = c.poly
    /\ \E ok \in BOOLEAN : FallibleStep(ok, "proof", "err:evaluate:ordering", "starts_at_one")
    /\ UNCHANGED <<spr, solution, lro, force, fullWitness, proof, fs, task, cerr, hist>>

\* lines 508-524
ProveStartsAtOne ==
    /\ pc = "starts_at_one"
    /\ LET hp == Alloc(heap, "lone", "L1", "Lagrange", Cardinality0)
           c  == CosetAll(hp, Put(poly, "lone", NewPolynomial("lone", "Lagrange", "Regular")),
                          <<"lone">>)
       IN  heap' = c.heap /\ poly' = c.poly
    /\ \E ok \in BOOLEAN : FallibleStep(ok, "proof", "err:evaluate:startsAtOne", "quotient")
    /\ UNCHANGED <<spr, solution, lro, force, fullWitness, proof, fs, task, cerr, hist>>

\* the three chunks of h.Coefficients, each of Cardinality0 + 2 coefficients
ChunkSize == Cardinality0 + 2

\* lines 526-544
ProveComputeQuotient ==
    /\ pc = "quotient"
    /\ \E ok \in BOOLEAN :
        /\ FallibleStep(ok, "proof", "err:quotient", "h_go")
        /\ heap' = IF ok
                   THEN Alloc(Alloc(Alloc(heap, "h.0", "h1", "Canonical", ChunkSize),
                                    "h.1", "h2", "Canonical", ChunkSize),
                              "h.2", "h3", "Canonical", ChunkSize)
                   ELSE heap
    /\ UNCHANGED <<spr, solution, lro, force, fullWitness, proof, fs, task, cerr, poly, hist>>

\* lines 547-553: if err := commitToQuotient(...); err != nil { return nil, err }
ProveAfterCommitToQuotient ==
    /\ pc = "h_check"
    /\ IF cerr["h"].ret # Nil
       THEN Return(Nil, cerr["h"].ret)
       ELSE pc' = "derive_zeta" /\ ret' = ret
    /\ UNCHANGED <<spr, solution, lro, force, fullWitness, proof, fs, task, cerr, heap, poly, hist>>

-----------------------------------------------------------------------------
(* Prove, continued: zeta and the openings (lines 555-675) *)

\* &proof.H[0], &proof.H[1], &proof.H[2]
ZetaPoints == <<proof.H[0], proof.H[1], proof.H[2]>>

\* line 556
ProveDeriveZeta ==
    /\ pc = "derive_zeta"
    /\ \E ok \in BOOLEAN :
        /\ TranscriptStep(IF ok THEN deriveRandomness(fs, "zeta", ZetaPoints)
                          ELSE HashFailed(fs), Nil, "eval_zeta")
        /\ hist' = IF ok THEN [hist EXCEPT !.unabsorbed = Absorb(ZetaPoints),
                                           !.derivedWith["zeta"] = Absorb(ZetaPoints)]
                   ELSE hist
    /\ UNCHANGED <<spr, solution, lro, force, fullWitness, proof, task, cerr, heap, poly>>

RECURSIVE CanonicalAll(_, _, _)
CanonicalAll(hp, pl, names) ==
    IF names = <<>> THEN [heap |-> hp, poly |-> pl]
    ELSE LET c == ToCanonicalRegular(hp, pl[Head(names)])
         IN  CanonicalAll(c.heap, [pl EXCEPT ![Head(names)] = c.p], Tail(names))

\* lines 561-569: l, r, o back to canonical form, then evaluated at zeta
ProveEvaluateAtZeta ==
    /\ pc = "eval_zeta"
    /\ LET c == CanonicalAll(heap, poly, <<"l", "r", "o">>) IN heap' = c.heap /\ poly' = c.poly
    /\ pc' = "open_z"
    /\ UNCHANGED <<spr, solution, lro, force, fullWitness, proof, ret, fs, task, cerr, hist>>

\* lines 572-586
ProveOpenZ ==
    /\ pc = "open_z"
    /\ LET c == CanonicalAll(heap, poly, <<"z">>)
       IN  /\ heap' = c.heap
           /\ poly' = c.poly
           /\ \E ok \in BOOLEAN :
                /\ FallibleStep(ok, Nil, "err:open:Z", "lin_poly")
                /\ proof' = [proof EXCEPT !.ZShiftedOpening =
                                IF ok THEN <<"Open", c.heap[c.poly["z"].buf], "zeta*generator">>
                                ELSE Zero]
    /\ UNCHANGED <<spr, solution, lro, force, fullWitness, fs, task, cerr, hist>>

\* the vectors of the proving key computeLinearizedPolynomial reads
LinReads == {"pk.S1Canonical", "pk.S2Canonical", "pk.S3Canonical",
             "pk.Ql", "pk.Qr", "pk.Qm", "pk.Qo", "pk.CQk"}

\* lines 588-611: the linearized polynomial is a new array; its commitment's
\* error is kept in errLPoly
ProveLinearizedPolynomial ==
    /\ pc = "lin_poly"
    /\ heap' = Alloc(heap, "linPol", "linPol", "Canonical", ChunkSize)
    /\ \E ok \in BOOLEAN :
        /\ cerr' = [cerr EXCEPT !.lpoly = IF ok THEN Nil ELSE "err:commit:linPol"]
        /\ hist' = [hist EXCEPT !.linRead = [h \in LinReads |-> heap[h]],
                                !.unabsorbed = IF ok THEN @ \cup {<<"Comm", "linPol", "Canonical", "Regular">>}
                                               ELSE @]
    /\ pc' = "fold_h"
    /\ UNCHANGED <<spr, solution, lro, force, fullWitness, proof, ret, fs, task, poly>>

\* lines 613-636: the third chunk of h is folded in place
ProveFoldH ==
    /\ pc = "fold_h"
    /\ heap' = CopyInto(heap, "h.2", "foldedH")
    /\ pc' = "lpoly_check"
    /\ UNCHANGED <<spr, solution, lro, force, fullWitness, proof, ret, fs, task, cerr, poly, hist>>

\* lines 638-640
ProveCheckLPoly ==
    /\ pc = "lpoly_check"
    /\ FallibleStep(cerr.lpoly = Nil, Nil, cerr.lpoly, "batch_open")
    /\ UNCHANGED <<spr, solution, lro, force, fullWitness, proof, fs, task, cerr, heap, poly, hist>>

OpenReads == {"pk.S1Canonical", "pk.S2Canonical"}

\* lines 642-675
ProveBatchOpen ==
    /\ pc = "batch_open"
    /\ \E ok \in BOOLEAN :
        /\ proof' = [proof EXCEPT !.BatchedProof =
                        IF ok THEN <<"BatchOpen", heap["h.2"].data, "linPol",
                                     heap[poly["l"].buf].data, heap[poly["r"].buf].data,
                                     heap[poly["o"].buf].data,
                                     heap["pk.S1Canonical"], heap["pk.S2Canonical"]>>
                        ELSE Zero]
        /\ IF ok THEN Return("proof", Nil) ELSE Return(Nil, "err:batchOpen")
    /\ hist' = [hist EXCEPT !.openRead = [h \in OpenReads |-> heap[h]]]
    /\ UNCHANGED <<spr, solution, lro, force, fullWitness, fs, task, cerr, heap, poly>>

-----------------------------------------------------------------------------

Next ==
    \/ ProveSolve
    \/ ProveEvalLRO
    \/ commitToLRO_Fork
    \/ commitToLRO_Own
    \/ commitToLRO_Wait
    \/ commitToLRO_Return
    \/ \E t \in Tasks : TaskCommit(t)
    \/ \E t \in Tasks : TaskClose(t)
    \/ ProveAfterCommitToLRO
    \/ ProveBindPublicData
    \/ ProveDeriveGamma
    \/ ProveDeriveBeta
    \/ ProveBuildZ
    \/ ProveCommitZ
    \/ ProveDeriveAlpha
    \/ ProveCompleteQk
    \/ ProveConstraints
    \/ \E i \in 1..Len(SubOrdering) : ProveSubOrdering(i)
    \/ ProveOrdering
    \/ ProveStartsAtOne
    \/ ProveComputeQuotient
    \/ commitToQuotient_Fork
    \/ commitToQuotient_Own
    \/ commitToQuotient_Wait
    \/ commitToQuotient_Return
    \/ ProveAfterCommitToQuotient
    \/ ProveDeriveZeta
    \/ ProveEvaluateAtZeta
    \/ ProveOpenZ
    \/ ProveLinearizedPolynomial
    \/ ProveFoldH
    \/ ProveCheckLPoly
    \/ ProveBatchOpen

Spec == Init /\ [][Next]_vars

-----------------------------------------------------------------------------
(* Properties of Prove, checked under Spec *)

LogIndex(e) == CHOOSE i \in 1..Len(fs.log) : fs.log[i] = e
ChallengeEvent(name) == <<"challenge", name>>
BindEvent(name, item) == <<"bind", name, item>>
IsChallengeEvent(e) == e[1] = "challenge"
ChallengeEvents == SelectSeq(fs.log, IsChallengeEvent)
CommitOf(data) == <<"Comm", data, "Canonical", "Regular">>

\* the log up to gamma: the key's data, the public inputs, the three wire commitments
ExpectedGammaLog ==
    <<BindEvent("gamma", <<"vk", PkHeap["pk.Vk"]>>)>>
    \o [i \in 1..spr.Public |-> BindEvent("gamma", <<"public", i - 1, fullWitness[i - 1]>>)]
    \o <<BindEvent("gamma", CommitOf("l")), BindEvent("gamma", CommitOf("r")),
         BindEvent("gamma", CommitOf("o"))>>

\* C2: when gamma is derived the transcript has absorbed exactly the
\* verification key's data, the public inputs and the commitments LRO[0], LRO[1],
\* LRO[2], in this order, and the three commitments have been computed.
C2_GammaAbsorbsPublicDataThenLRO ==
    IsComputed(fs, "gamma") =>
        /\ SubSeq(fs.log, 1, LogIndex(ChallengeEvent("gamma")) - 1) = ExpectedGammaLog
        /\ \A i \in 0..2 : hist.outcome["lro"][i] = "ok"
        /\ proof.LRO = [i \in 0..2 |-> CommitOf(<<"l", "r", "o">>[i + 1])]

C2_Witness ==
    /\ IsComputed(fs, "gamma")
    /\ spr.Public = 2
    /\ pc = "derive_beta"

\* C3: the challenges are derived once each in the order gamma, beta, alpha,
\* zeta; beta directly after gamma; alpha directly after the commitment to Z was
\* absorbed; zeta directly after H[0], H[1], H[2] were absorbed; and no challenge
\* is derived while a commitment computed before it is unabsorbed.
C3_ChallengeOrder ==
    /\ ChallengeEvents = [i \in 1..Len(fs.computed) |-> ChallengeEvent(Challenges[i])]
    /\ Len(fs.computed) <= Len(Challenges)
    /\ IsComputed(fs, "beta") =>
          fs.log[LogIndex(ChallengeEvent("beta")) - 1] = ChallengeEvent("gamma")
    /\ IsComputed(fs, "alpha") =>
          /\ proof.Z = CommitOf("z")
          /\ SubSeq(fs.log, LogIndex(ChallengeEvent("alpha")) - 2,
                    LogIndex(ChallengeEvent("alpha")) - 1)
                = <<ChallengeEvent("beta"), BindEvent("alpha", proof.Z)>>
    /\ IsComputed(fs, "zeta") =>
          /\ proof.H = [i \in 0..2 |-> CommitOf(<<"h1", "h2", "h3">>[i + 1])]
          /\ SubSeq(fs.log, LogIndex(ChallengeEvent("zeta")) - 4,
                    LogIndex(ChallengeEvent("zeta")) - 1)
                = <<ChallengeEvent("alpha"), BindEvent("zeta", proof.H[0]),
                    BindEvent("zeta", proof.H[1]), BindEvent("zeta", proof.H[2])>>
    /\ \A c \in ChallengeNames : hist.derivedWith[c] = {}

C3_Witness ==
    /\ IsComputed(fs, "zeta")
    /\ pc = "eval_zeta"

\* C4: when Prove returns an error, the proof it returns is nil.
C4_NoPartialProofOnError ==
    (pc = "returned" /\ ret.err # Nil) => ret.proof = Nil

\* C5: commitToLRO and commitToQuotient return an error exactly when one of
\* the three commitments failed, whatever the order the tasks ran in, and
\* Prove then returns that error and goes no further.
C5_CommitErrorIffACommitFailed ==
    \A c \in Calls :
        cerr[c].ret # "unset" =>
            /\ (cerr[c].ret # Nil) <=> (\E i \in 0..2 : hist.outcome[c][i] = "fail")
            /\ cerr[c].ret = Nil => \A i \in 0..2 : hist.outcome[c][i] = "ok"
            /\ cerr[c].ret # Nil =>
                  /\ \E i \in 0..2 : /\ hist.outcome[c][i] = "fail"
                                     /\ cerr[c].ret = CommitError(c, i)
                  /\ pc \in {c \o "_check", "returned"}
                  /\ pc = "returned" => ret = [proof |-> Nil, err |-> cerr[c].ret]

\* the second forked task fails after the calling path and the first task succeeded
C5_Witness ==
    /\ cerr["lro"].ret = CommitError("lro", 1)
    /\ hist.outcome["lro"][0] = "ok"
    /\ hist.outcome["lro"][2] = "ok"
    /\ pc = "returned"

NbInputs == spr.Public + spr.Secret
SolveFailed == hist.solveErr \notin {"unset", Nil}

\* C6: a solver error without opt.Force is returned before any commitment or
\* challenge; with opt.Force the run goes on, the public and secret entries of
\* the solution are the solver's, and the internal entries are r, 2r, 4r, ...
C6_SolveFailure ==
    /\ (SolveFailed /\ ~force) =>
          /\ pc = "returned"
          /\ ret = [proof |-> Nil, err |-> hist.solveErr]
          /\ proof = EmptyProof
          /\ fs.log = <<>>
          /\ \A c \in Calls : \A i \in 0..2 : hist.outcome[c][i] = "pending"
          /\ \A t \in Tasks : task[t].st = "none"
    /\ (SolveFailed /\ force) =>
          /\ ret.err # hist.solveErr
          /\ DOMAIN solution = DOMAIN hist.solved
          /\ \A i \in DOMAIN solution :
                IF i < NbInputs
                THEN solution[i] = hist.solved[i] /\ solution[i] = fullWitness[i]
                ELSE solution[i] = Mul(hist.rnd, Exp(2, i - NbInputs))

\* a forced run over a failed solve that completes, its placeholders not the solver's values
C6_Witness ==
    /\ SolveFailed /\ force
    /\ pc = "returned" /\ ret = [proof |-> "proof", err |-> Nil]
    /\ hist.rnd # 0
    /\ \E i \in DOMAIN solution : i >= NbInputs /\ solution[i] # hist.solved[i]

-----------------------------------------------------------------------------
(* SpecLRO: evaluateLROSmallDomain on every circuit and every small solution *)

MaxSolutionValue == 2
SolutionValues == 0..MaxSolutionValue

InitLRO ==
    /\ pc = "lro_call"
    /\ spr \in Circuits
    /\ solution \in [0..(spr.NbWires - 1) -> SolutionValues]
    /\ lro = NoLRO
    /\ IdleProver
    /\ hist = [solution |-> solution]

CallEvaluateLRO ==
    /\ pc = "lro_call"
    /\ LET out == evaluateLROSmallDomain(spr, Cardinality0, solution)
       IN  /\ lro' = [l |-> out.l, r |-> out.r, o |-> out.o]
           /\ solution' = out.solution
    /\ pc' = "lro_done"
    /\ UNCHANGED <<spr, proverVars, hist>>

NextLRO == CallEvaluateLRO

SpecLRO == InitLRO /\ [][NextLRO]_vars

\* C8: evaluateLROSmallDomain returns three columns of length s; a public row i
\* holds solution[i] in L and solution[0] in R and O; a gate row holds the
\* solution values of the gate's L, R, O wires; a padding row holds solution[0]
\* in all three columns; the solution vector is left as it was.
C8_LROLayout ==
    pc = "lro_done" =>
        LET k == spr.Public
            g == NbConstraints(spr)
            s == Cardinality0
        IN  /\ k + g <= s
            /\ DOMAIN lro.l = 0..(s - 1)
            /\ DOMAIN lro.r = 0..(s - 1)
            /\ DOMAIN lro.o = 0..(s - 1)
            /\ \A i \in 0..(k - 1) :
                  /\ lro.l[i] = hist.solution[i]
                  /\ lro.r[i] = hist.solution[0]
                  /\ lro.o[i] = hist.solution[0]
            /\ \A j \in 0..(g - 1) :
                  /\ lro.l[k + j] = hist.solution[spr.Constraints[j].L]
                  /\ lro.r[k + j] = hist.solution[spr.Constraints[j].R]
                  /\ lro.o[k + j] = hist.solution[spr.Constraints[j].O]
            /\ \A p \in (k + g)..(s - 1) :
                  /\ lro.l[p] = hist.solution[0]
                  /\ lro.r[p] = hist.solution[0]
                  /\ lro.o[p] = hist.solution[0]
            /\ solution = hist.solution

\* a call on a system with a public row, a gate row and a padding row, whose
\* filler solution[0] is not zero
C8_Witness ==
    /\ pc = "lro_done"
    /\ spr.Public + NbConstraints(spr) < Cardinality0
    /\ spr.Public > 0
    /\ hist.solution[0] # 0
    /\ lro.l[Cardinality0 - 1] = hist.solution[0]

-----------------------------------------------------------------------------
(* SpecFold: the split of the quotient into three chunks, their commitments *)
(* and the folding at zeta, on numeric coefficient vectors.  A digest is    *)
(* the exponent of the group element: Comm(p) = p(Tau) for the secret Tau   *)
(* of the SRS, the group addition is Add and the scalar multiplication Mul. *)

Tau == 3

RECURSIVE KzgCommitFrom(_, _)
KzgCommitFrom(p, i) ==
    IF i >= ArrLen(p) THEN 0
    ELSE Add(Mul(p[i], Exp(Tau, i)), KzgCommitFrom(p, i + 1))

KzgCommit(p) == KzgCommitFrom(p, 0)

\* a[lo:hi]
Slice(a, lo, hi) == [i \in 0..(hi - lo - 1) |-> a[lo + i]]

\* lines 548-550 and 627-629: the bounds of the k-th chunk of h.Coefficients
QuotientChunk(k) == [lo |-> k * ChunkSize, hi |-> (k + 1) * ChunkSize]

ChunkOf(h, k) == Slice(h, QuotientChunk(k).lo, QuotientChunk(k).hi)

\* A plausible slip: the exponent leaves out the two masking coefficients.
bSizeNoMasking == Cardinality0

\* line 616
bSize == Cardinality0 + 2

MaxCoeff == 2
CoeffValues == 0..MaxCoeff

\* h.Coefficients: 3(n+2) coefficients of the quotient and one more entry of the array
QuotientLen == 3 * (Cardinality0 + 2) + 1

QuotientVector(a, b, c) ==
    [i \in 0..(QuotientLen - 1) |-> (a * i * i + b * i + c + (i \div ChunkSize)) % P]

InitFold ==
    /\ pc = "fold_commit"
    /\ spr = CircuitA
    /\ solution = <<>>
    /\ lro = NoLRO
    /\ force = FALSE
    /\ fullWitness = <<>>
    /\ proof = EmptyProof
    /\ ret = [proof |-> "unset", err |-> Nil]
    /\ fs = NewTranscript
    /\ task = <<>>
    /\ cerr = <<>>
    /\ poly = <<>>
    /\ \E a, b, c \in CoeffValues : \E zeta \in F :
          heap = [h |-> QuotientVector(a, b, c), zeta |-> zeta, foldedHDigest |-> 0]
    /\ hist = [h |-> heap.h, committed |-> <<>>]

\* lines 547-553 with 704-728, every kzg.Commit succeeding
FoldCommitToQuotient ==
    /\ pc = "fold_commit"
    /\ proof' = [proof EXCEPT !.H = [k \in 0..2 |-> KzgCommit(ChunkOf(heap.h, k))]]
    /\ hist' = [hist EXCEPT !.committed = [k \in 0..2 |-> ChunkOf(heap.h, k)]]
    /\ pc' = "fold_digest"
    /\ UNCHANGED <<spr, solution, lro, force, fullWitness, ret, fs, task, cerr, heap, poly>>

\* lines 614-624
FoldDigest ==
    /\ pc = "fold_digest"
    /\ LET zetaPowerm == Exp(heap.zeta, bSize)
           d0 == proof.H[2]
           d1 == Mul(d0, zetaPowerm)
           d2 == Add(d1, proof.H[1])
           d3 == Mul(d2, zetaPowerm)
           d4 == Add(d3, proof.H[0])
       IN  heap' = [heap EXCEPT !.foldedHDigest = d4]
    /\ pc' = "fold_h"
    /\ UNCHANGED <<spr, solution, lro, force, fullWitness, proof, ret, fs, task, cerr, poly, hist>>

\* lines 627-636: foldedH is the third chunk of h.Coefficients, folded in place
FoldInPlace ==
    /\ pc = "fold_h"
    /\ LET zetaPowerm == Exp(heap.zeta, bSize)
           foldedH == QuotientChunk(2)
           h2 == QuotientChunk(1)
           h1 == QuotientChunk(0)
           fold(i) ==
               LET f0 == heap.h[foldedH.lo + i]
                   f1 == Mul(f0, zetaPowerm)
                   f2 == Add(f1, heap.h[h2.lo + i])
                   f3 == Mul(f2, zetaPowerm)
               IN  Add(f3, heap.h[h1.lo + i])
       IN  heap' = [heap EXCEPT !.h =
                       [j \in DOMAIN heap.h |->
                           IF j >= foldedH.lo /\ j < foldedH.hi
                           THEN fold(j - foldedH.lo) ELSE heap.h[j]]]
    /\ pc' = "fold_done"
    /\ UNCHANGED <<spr, solution, lro, force, fullWitness, proof, ret, fs, task, cerr, poly, hist>>

NextFold ==
    \/ FoldCommitToQuotient
    \/ FoldDigest
    \/ FoldInPlace

SpecFold == InitFold /\ [][NextFold]_vars

-----------------------------------------------------------------------------
(* SpecLin: computeLinearizedPolynomial on numeric inputs.  The proving key *)
(* vectors have |Domain[0]| entries and the blinded Z has two more.         *)

CardinalityInv == Inverse(Cardinality0 % P)

RECURSIVE EvaluateFrom(_, _, _)
EvaluateFrom(p, x, i) ==
    IF i >= ArrLen(p) THEN 0
    ELSE Add(p[i], Mul(x, EvaluateFrom(p, x, i + 1)))

\* iop.Polynomial.Evaluate on a canonical, regular polynomial
Evaluate(p, x) == EvaluateFrom(p, x, 0)

KeyVector(a, b) == [i \in 0..(Cardinality0 - 1) |-> (a * (i + 1) + b * i * i) % P]

LinKey ==
    [Ql |-> KeyVector(1, 0), Qr |-> KeyVector(2, 1), Qm |-> KeyVector(3, 2),
     Qo |-> KeyVector(4, 3), CQk |-> KeyVector(5, 1),
     S1Canonical |-> KeyVector(6, 2), S2Canonical |-> KeyVector(7, 3),
     S3Canonical |-> KeyVector(8, 5)]

MaxEval == 1
EvalValues == {(5 * k) % P : k \in 0..MaxEval}
MaxChallenge == 1
ChallengeValues == {(6 * k) % P : k \in 0..MaxChallenge}
MaxZeta == 2
ZetaValues == 0..MaxZeta

BlindedZ(a) == [i \in 0..(Cardinality0 + 1) |-> (1 + a * i + i * i) % P]

NoLocals == [rl |-> 0, s1 |-> 0, tmp |-> 0, s2 |-> 0, lagrangeZeta |-> 0, linPol |-> <<>>]

InitLin ==
    /\ pc = "lin_call"
    /\ spr = CircuitA
    /\ solution = <<>>
    /\ lro = NoLRO
    /\ force = FALSE
    /\ fullWitness = <<>>
    /\ proof = EmptyProof
    /\ ret = [proof |-> "unset", err |-> Nil]
    /\ fs = NewTranscript
    /\ task = [chS1 |-> "none"]
    /\ cerr = <<>>
    /\ poly = <<>>
    /\ \E lZeta, rZeta, oZeta, zu \in EvalValues :
       \E alpha, beta, gamma \in ChallengeValues :
       \E zeta \in ZetaValues : \E a \in CoeffValues :
          heap = [pk |-> LinKey, blindedZCanonical |-> BlindedZ(a),
                  lZeta |-> lZeta, rZeta |-> rZeta, oZeta |-> oZeta,
                  alpha |-> alpha, beta |-> beta, gamma |-> gamma,
                  zeta |-> zeta, zu |-> zu, loc |-> NoLocals]
    /\ hist = [blindedZCanonical |-> heap.blindedZCanonical]

\* lines 776-785: rl, and the goroutine for s1 is started
LinFork ==
    /\ pc = "lin_call"
    /\ heap' = [heap EXCEPT !.loc.rl = Mul(heap.rZeta, heap.lZeta)]
    /\ task' = [chS1 |-> "running"]
    /\ pc' = "lin_s2"
    /\ UNCHANGED <<spr, solution, lro, force, fullWitness, proof, ret, fs, cerr, poly, hist>>

\* lines 781-785, the goroutine
LinTaskS1 ==
    /\ task = [chS1 |-> "running"]
    /\ LET s1 == Evaluate(heap.pk.S1Canonical, heap.zeta)
       IN  heap' = [heap EXCEPT !.loc.s1 =
                       Add(Add(Mul(s1, heap.beta), heap.lZeta), heap.gamma)]
    /\ task' = [chS1 |-> "closed"]
    /\ UNCHANGED <<pc, spr, solution, lro, force, fullWitness, proof, ret, fs, cerr, poly, hist>>

\* lines 787-789
LinOwnS2 ==
    /\ pc = "lin_s2"
    /\ LET tmp == Evaluate(heap.pk.S2Canonical, heap.zeta)
       IN  heap' = [heap EXCEPT !.loc.tmp =
                       Add(Add(Mul(tmp, heap.beta), heap.rZeta), heap.gamma)]
    /\ pc' = "lin_wait"
    /\ UNCHANGED <<spr, solution, lro, force, fullWitness, proof, ret, fs, task, cerr, poly, hist>>

\* lines 790-791
LinJoin ==
    /\ pc = "lin_wait"
    /\ task = [chS1 |-> "closed"]
    /\ heap' = [heap EXCEPT !.loc.s1 =
                   Mul(Mul(Mul(heap.loc.s1, heap.loc.tmp), heap.zu), heap.beta)]
    /\ pc' = "lin_scalars"
    /\ UNCHANGED <<spr, solution, lro, force, fullWitness, proof, ret, fs, task, cerr, poly, hist>>

\* A plausible slip: the factor 1/n is left out.
LagrangeZetaNoCardinalityInv(zeta, alpha) ==
    LET lz == Sub(Exp(zeta, Cardinality0), 1)
        den == Inverse(Sub(zeta, 1))
    IN  Mul(Mul(Mul(lz, den), alpha), alpha)

\* lines 808-819
LagrangeZeta(zeta, alpha) ==
    LET lz == Sub(Exp(zeta, Cardinality0), 1)
        den == Inverse(Sub(zeta, 1))
    IN  Mul(Mul(Mul(Mul(lz, den), alpha), alpha), CardinalityInv)

\* lines 793-819
LinScalars ==
    /\ pc = "lin_scalars"
    /\ LET uzeta == Mul(heap.zeta, CosetShift)
           uuzeta == Mul(uzeta, CosetShift)
           s2a == Add(Add(Mul(heap.beta, heap.zeta), heap.lZeta), heap.gamma)
           tmp1 == Add(Add(Mul(heap.beta, uzeta), heap.rZeta), heap.gamma)
           s2b == Mul(s2a, tmp1)
           tmp2 == Add(Add(Mul(heap.beta, uuzeta), heap.oZeta), heap.gamma)
           s2c == Mul(s2b, tmp2)
       IN  heap' = [heap EXCEPT !.loc.s2 = Neg(s2c),
                                !.loc.tmp = tmp2,
                                !.loc.lagrangeZeta = LagrangeZeta(heap.zeta, heap.alpha)]
    /\ pc' = "lin_loop"
    /\ UNCHANGED <<spr, solution, lro, force, fullWitness, proof, ret, fs, task, cerr, poly, hist>>

\* lines 826-859: the body of the loop for index i, on the copy of Z
LinCoefficient(i) ==
    LET pk == heap.pk
        loc == heap.loc
        p0 == heap.blindedZCanonical[i]
        p1 == Mul(p0, loc.s2)
        p2 == IF i < ArrLen(pk.S3Canonical)
              THEN Add(p1, Mul(pk.S3Canonical[i], loc.s1)) ELSE p1
        p3 == Mul(p2, heap.alpha)
        p4 == IF i < ArrLen(pk.Qm)
              THEN LET t1 == Mul(pk.Qm[i], loc.rl)
                       t0 == Add(Mul(pk.Ql[i], heap.lZeta), t1)
                       q0 == Add(p3, t0)
                       q1 == Add(q0, Mul(pk.Qr[i], heap.rZeta))
                   IN  Add(q1, Add(Mul(pk.Qo[i], heap.oZeta), pk.CQk[i]))
              ELSE p3
    IN  Add(p4, Mul(heap.blindedZCanonical[i], loc.lagrangeZeta))

\* lines 821-862
LinLoop ==
    /\ pc = "lin_loop"
    /\ heap' = [heap EXCEPT !.loc.linPol =
                   [i \in 0..(ArrLen(heap.blindedZCanonical) - 1) |-> LinCoefficient(i)]]
    /\ pc' = "lin_done"
    /\ UNCHANGED <<spr, solution, lro, force, fullWitness, proof, ret, fs, task, cerr, poly, hist>>

NextLin ==
    \/ LinFork
    \/ LinTaskS1
    \/ LinOwnS2
    \/ LinJoin
    \/ LinScalars
    \/ LinLoop

SpecLin == InitLin /\ [][NextLin]_vars

At(v, i) == IF i < ArrLen(v) THEN v[i] ELSE 0

-----------------------------------------------------------------------------
(* SpecIdentity: Prove up to the quotient, on numeric polynomials.  A       *)
(* polynomial is held by its values on Domain[0] (Lagrange) or by its       *)
(* coefficients (Canonical); the evaluations on the coset of Domain[1] that *)
(* the code works with determine the same polynomial, and the captures of   *)
(* EvaluatePolynomials combine their operands point by point, so each       *)
(* capture is evaluated here at the points of Domain[0].                    *)

RECURSIVE SumArrFrom(_, _)
SumArrFrom(a, i) == IF i >= ArrLen(a) THEN 0 ELSE Add(a[i], SumArrFrom(a, i + 1))

RECURSIVE RevBits(_, _, _)
RevBits(i, size, acc) ==
    IF size <= 1 THEN acc ELSE RevBits(i \div 2, size \div 2, 2 * acc + (i % 2))

\* fft.BitReverse
BitReverseArr(v) == [i \in DOMAIN v |-> v[RevBits(i, ArrLen(v), 0)]]

\* Domain[0].FFTInverse(v, fft.DIF): the coefficients, left in bit-reversed order
FFTInverse(v) ==
    LET wInv == Inverse(Generator)
        coeff(j) == Mul(CardinalityInv,
                        SumArrFrom([i \in DOMAIN v |-> Mul(v[i], Exp(wInv, i * j))], 0))
    IN  BitReverseArr([j \in DOMAIN v |-> coeff(j)])

\* ToCanonical(&pk.Domain[0]).ToRegular() on a Lagrange, regular polynomial
ToCanonicalNum(v) == BitReverseArr(FFTInverse(v))

\* the values on Domain[0] of a canonical polynomial
ToLagrangeNum(p) == [i \in 0..(Cardinality0 - 1) |-> Evaluate(p, DomainPoints[i])]

\* pk.Domain[0].FrMultiplicativeGen, which Setup copies to pk.Vk.CosetShift
FrMultiplicativeGen == CosetShift

\* the identifiers of the 3n positions: omega^i, g omega^i, g^2 omega^i
EvaluationIDSmallDomain ==
    [q \in 0..(3 * Cardinality0 - 1) |->
        Mul(Exp(FrMultiplicativeGen, q \div Cardinality0), DomainPoints[q % Cardinality0])]

\* Setup: the wire at each position of the columns L, R, O (wire 0 where a
\* public or padding row names none)
LroIDs(c) ==
    [q \in 0..(3 * Cardinality0 - 1) |->
        LET col == q \div Cardinality0
            row == q % Cardinality0
            j   == row - c.Public
        IN  IF row < c.Public THEN (IF col = 0 THEN row ELSE 0)
            ELSE IF j < NbConstraints(c)
                 THEN (IF col = 0 THEN c.Constraints[j].L
                       ELSE IF col = 1 THEN c.Constraints[j].R
                       ELSE c.Constraints[j].O)
                 ELSE 0]

\* Setup: each position is sent to the previous position of the same wire,
\* the first one to the last
BuildPermutation(c) ==
    LET ids == LroIDs(c)
        same(q) == {x \in DOMAIN ids : ids[x] = ids[q]}
        maxOf(S) == CHOOSE x \in S : \A y \in S : y <= x
    IN  [q \in DOMAIN ids |->
            LET before == {x \in same(q) : x < q}
            IN  IF before # {} THEN maxOf(before) ELSE maxOf(same(q))]

\* Setup: the selectors on Domain[0]; a public row is -l + qk = 0
SelectorRows(c) ==
    [i \in 0..(Cardinality0 - 1) |->
        LET j == i - c.Public
        IN  IF i < c.Public
            THEN [ql |-> MinusOne, qr |-> 0, qm |-> 0, qo |-> 0, qk |-> 0]
            ELSE IF j < NbConstraints(c)
                 THEN [ql |-> c.Constraints[j].ql, qr |-> c.Constraints[j].qr,
                       qm |-> c.Constraints[j].qm, qo |-> c.Constraints[j].qo,
                       qk |-> c.Constraints[j].qk]
                 ELSE [ql |-> 0, qr |-> 0, qm |-> 0, qo |-> 0, qk |-> 0]]

SetupKey(c) ==
    LET rows == SelectorRows(c)
        perm == BuildPermutation(c)
        s(k) == [i \in 0..(Cardinality0 - 1) |->
                    EvaluationIDSmallDomain[perm[k * Cardinality0 + i]]]
    IN  [Ql |-> ToCanonicalNum([i \in DOMAIN rows |-> rows[i].ql]),
         Qr |-> ToCanonicalNum([i \in DOMAIN rows |-> rows[i].qr]),
         Qm |-> ToCanonicalNum([i \in DOMAIN rows |-> rows[i].qm]),
         Qo |-> ToCanonicalNum([i \in DOMAIN rows |-> rows[i].qo]),
         LQk |-> [i \in DOMAIN rows |-> rows[i].qk],
         Permutation |-> perm,
         S1Canonical |-> ToCanonicalNum(s(0)),
         S2Canonical |-> ToCanonicalNum(s(1)),
         S3Canonical |-> ToCanonicalNum(s(2))]

\* iop.BuildRatioCopyConstraint: Z(1) = 1 and
\* Z(omega^(i+1)) = Z(omega^i) * prod_k (f_k[i] + beta id[kn+i] + gamma)
\*                             / prod_k (f_k[i] + beta id[perm[kn+i]] + gamma),
\* the inverse of 0 being 0; returned in canonical form
RatioFactor(f, perm, beta, gamma, i, permuted) ==
    LET term(k) ==
            LET q == k * Cardinality0 + i
                id == EvaluationIDSmallDomain[IF permuted THEN perm[q] ELSE q]
            IN  Add(Add(f[k][i], Mul(beta, id)), gamma)
    IN  Mul(Mul(term(0), term(1)), term(2))

RECURSIVE RatioValue(_, _, _, _, _)
RatioValue(f, perm, beta, gamma, i) ==
    IF i = 0 THEN 1
    ELSE Mul(RatioValue(f, perm, beta, gamma, i - 1),
             Mul(RatioFactor(f, perm, beta, gamma, i - 1, FALSE),
                 Inverse(RatioFactor(f, perm, beta, gamma, i - 1, TRUE))))

BuildRatioCopyConstraint(l, r, o, perm, beta, gamma) ==
    LET f == <<ToLagrangeNum(l), ToLagrangeNum(r), ToLagrangeNum(o)>>
        g == [k \in 0..2 |-> f[k + 1]]
    IN  ToCanonicalNum([i \in 0..(Cardinality0 - 1) |-> RatioValue(g, perm, beta, gamma, i)])

\* the proving key of each circuit, as Setup leaves it
Keys == [c \in Circuits |-> SetupKey(c)]

\* the first Lagrange polynomial of Domain[0] in canonical form (lines 509-514)
LoneCanonical == ToCanonicalNum([i \in 0..(Cardinality0 - 1) |-> IF i = 0 THEN 1 ELSE 0])

NoPoly == <<>>

InitIdentity ==
    /\ pc = "solve"
    /\ spr \in Circuits
    /\ force \in BOOLEAN
    /\ fullWitness \in [0..(spr.Public + spr.Secret - 1) -> WitnessValues]
    /\ solution = <<>>
    /\ lro = NoLRO
    /\ proof = EmptyProof
    /\ ret = [proof |-> "unset", err |-> Nil]
    /\ fs = NewTranscript
    /\ task = [t \in Tasks |-> NoTask]
    /\ cerr = <<>>
    /\ poly = <<>>
    /\ \E beta \in F : \E gamma, alpha \in ChallengeValues :
          heap = [pk |-> Keys[spr], beta |-> beta, gamma |-> gamma, alpha |-> alpha,
                  l |-> NoPoly, r |-> NoPoly, o |-> NoPoly, z |-> NoPoly,
                  qkCompletedCanonical |-> NoPoly, constraints |-> NoPoly,
                  ordering |-> NoPoly, startsAtOne |-> NoPoly, h |-> NoPoly]
    /\ hist = [solved |-> <<>>, solveErr |-> "unset", rnd |-> 0]

\* lines 317-329
IdEvalLRO ==
    /\ pc = "eval_lro"
    /\ LET out == evaluateLROSmallDomain(spr, Cardinality0, solution)
       IN  /\ lro' = [l |-> out.l, r |-> out.r, o |-> out.o]
           /\ solution' = out.solution
           /\ heap' = [heap EXCEPT !.l = ToCanonicalNum(out.l),
                                   !.r = ToCanonicalNum(out.r),
                                   !.o = ToCanonicalNum(out.o)]
    /\ pc' = "build_z"
    /\ UNCHANGED <<spr, force, fullWitness, proof, ret, fs, task, cerr, poly, hist>>

\* lines 360-370
IdBuildZ ==
    /\ pc = "build_z"
    /\ heap' = [heap EXCEPT !.z =
                   BuildRatioCopyConstraint(heap.l, heap.r, heap.o, heap.pk.Permutation,
                                            heap.beta, heap.gamma)]
    /\ pc' = "complete_qk"
    /\ UNCHANGED <<spr, solution, lro, force, fullWitness, proof, ret, fs, task, cerr, poly, hist>>

\* A plausible slip: the public inputs are not copied in.
QkCompletedNoPublic(c, pk, w) == BitReverseArr(FFTInverse(pk.LQk))

\* lines 386-390
QkCompleted(c, pk, w) ==
    BitReverseArr(FFTInverse(
        [i \in 0..(Cardinality0 - 1) |-> IF i < c.Public THEN w[i] ELSE pk.LQk[i]]))

\* lines 385-390
IdCompleteQk ==
    /\ pc = "complete_qk"
    /\ heap' = [heap EXCEPT !.qkCompletedCanonical = QkCompleted(spr, heap.pk, fullWitness)]
    /\ pc' = "constraints"
    /\ UNCHANGED <<spr, solution, lro, force, fullWitness, proof, ret, fs, task, cerr, poly, hist>>

\* lines 392-423: constraintsCapture over ql, qr, qm, qo, qk, l, r, o at the point x
ConstraintsAt(hp, x) ==
    LET ql == Evaluate(hp.pk.Ql, x)
        qr == Evaluate(hp.pk.Qr, x)
        qm == Evaluate(hp.pk.Qm, x)
        qo == Evaluate(hp.pk.Qo, x)
        qk == Evaluate(hp.qkCompletedCanonical, x)
        l  == Evaluate(hp.l, x)
        r  == Evaluate(hp.r, x)
        o  == Evaluate(hp.o, x)
    IN  Add(Add(Add(Add(Mul(ql, l), Mul(qr, r)), Mul(qm, Mul(l, r))), Mul(qo, o)), qk)

IdConstraints ==
    /\ pc = "constraints"
    /\ heap' = [heap EXCEPT !.constraints =
                   [i \in 0..(Cardinality0 - 1) |-> ConstraintsAt(heap, DomainPoints[i])]]
    /\ pc' = "ordering"
    /\ UNCHANGED <<spr, solution, lro, force, fullWitness, proof, ret, fs, task, cerr, poly, hist>>

\* lines 426-437: subOrderingCapture[k] over a wire polynomial and an identifier
SubOrderingCapture(k, hp, wire, id) ==
    LET ubeta == Mul(hp.beta, FrMultiplicativeGen)
        uubeta == Mul(ubeta, FrMultiplicativeGen)
        coeff == IF k = 0 THEN hp.beta ELSE IF k = 1 THEN ubeta ELSE uubeta
    IN  Add(Add(wire, Mul(coeff, id)), hp.gamma)

\* lines 439-490 and 492-506: orderingCapture over Z(omega X), u, v, w, Z, a, b, c at x
OrderingAt(hp, x) ==
    LET l == Evaluate(hp.l, x)
        r == Evaluate(hp.r, x)
        o == Evaluate(hp.o, x)
        a == SubOrderingCapture(0, hp, l, x)
        b == SubOrderingCapture(1, hp, r, x)
        c == SubOrderingCapture(2, hp, o, x)
        u == SubOrderingCapture(0, hp, l, Evaluate(hp.pk.S1Canonical, x))
        v == SubOrderingCapture(0, hp, r, Evaluate(hp.pk.S2Canonical, x))
        w == SubOrderingCapture(0, hp, o, Evaluate(hp.pk.S3Canonical, x))
        z == Evaluate(hp.z, x)
        sz == Evaluate(hp.z, Mul(Generator, x))
    IN  Add(Mul(Mul(Mul(sz, u), v), w), Mul(MinusOne, Mul(Mul(Mul(z, a), b), c)))

IdOrdering ==
    /\ pc = "ordering"
    /\ heap' = [heap EXCEPT !.ordering =
                   [i \in 0..(Cardinality0 - 1) |-> OrderingAt(heap, DomainPoints[i])]]
    /\ pc' = "starts_at_one"
    /\ UNCHANGED <<spr, solution, lro, force, fullWitness, proof, ret, fs, task, cerr, poly, hist>>

\* lines 508-524: startsAtOneCapture over Z and the first Lagrange polynomial at x
StartsAtOneAt(hp, x) ==
    LET L == Evaluate(LoneCanonical, x)
        z == Evaluate(hp.z, x)
    IN  Add(Mul(z, L), Mul(MinusOne, L))

IdStartsAtOne ==
    /\ pc = "starts_at_one"
    /\ heap' = [heap EXCEPT !.startsAtOne =
                   [i \in 0..(Cardinality0 - 1) |-> StartsAtOneAt(heap, DomainPoints[i])]]
    /\ pc' = "quotient"
    /\ UNCHANGED <<spr, solution, lro, force, fullWitness, proof, ret, fs, task, cerr, poly, hist>>

\* lines 526-544: plonkCapture over constraints, ordering, startsAtOne; h holds
\* the values on Domain[0] of the numerator that ComputeQuotient divides by X^n - 1
IdQuotient ==
    /\ pc = "quotient"
    /\ LET alphaSquared == Mul(heap.alpha, heap.alpha)
       IN  heap' = [heap EXCEPT !.h =
                       [i \in 0..(Cardinality0 - 1) |->
                           Add(Add(heap.constraints[i], Mul(heap.alpha, heap.ordering[i])),
                               Mul(alphaSquared, heap.startsAtOne[i]))]]
    /\ pc' = "id_done"
    /\ UNCHANGED <<spr, solution, lro, force, fullWitness, proof, ret, fs, task, cerr, poly, hist>>

NextIdentity ==
    \/ ProveSolve
    \/ IdEvalLRO
    \/ IdBuildZ
    \/ IdCompleteQk
    \/ IdConstraints
    \/ IdOrdering
    \/ IdStartsAtOne
    \/ IdQuotient

SpecIdentity == InitIdentity /\ [][NextIdentity]_vars

AllGatesSatisfied == \A j \in 0..(NbConstraints(spr) - 1) : GateHolds(spr.Constraints[j], solution)

GatePartAt(i) ==
    LET rows == SelectorRows(spr)
        qk == IF i < spr.Public THEN fullWitness[i] ELSE rows[i].qk
    IN  GateValue([rows[i] EXCEPT !.qk = qk], lro.l[i], lro.r[i], lro.o[i])

\* no factor l + beta s1 + gamma, r + beta s2 + gamma, o + beta s3 + gamma is zero on Domain[0]
NoVanishingFactor ==
    \A i \in 0..(Cardinality0 - 1) : \A k \in 0..2 :
        LET wire == IF k = 0 THEN lro.l[i] ELSE IF k = 1 THEN lro.r[i] ELSE lro.o[i]
            sigma == EvaluationIDSmallDomain[heap.pk.Permutation[k * Cardinality0 + i]]
        IN  Add(Add(wire, Mul(heap.beta, sigma)), heap.gamma) # 0

\* C1 as stated: for a satisfying witness the combined identity is zero at
\* every point of the small domain for every alpha, beta, gamma, and the gate
\* part is zero at every row iff every gate is satisfied.
C1_CompletenessAllChallenges ==
    pc = "id_done" =>
        /\ AllGatesSatisfied => \A i \in 0..(Cardinality0 - 1) : heap.h[i] = 0
        /\ (\A i \in 0..(Cardinality0 - 1) : heap.constraints[i] = 0) <=> AllGatesSatisfied

\* C1: for a satisfying witness, every alpha and every beta, gamma for which
\* no factor w + beta sigma_w + gamma vanishes on the small domain, the combined
\* identity gate + alpha ordering + alpha^2 boundary is zero at every point of
\* the small domain; the gate part over the extracted rows, with qk completed
\* by the public inputs, is what the code evaluates, and it is zero at every
\* row iff every gate is satisfied.
C1_Completeness ==
    pc = "id_done" =>
        /\ (AllGatesSatisfied /\ NoVanishingFactor) =>
              \A i \in 0..(Cardinality0 - 1) : heap.h[i] = 0
        /\ \A i \in 0..(Cardinality0 - 1) : heap.constraints[i] = GatePartAt(i)
        /\ (\A i \in 0..(Cardinality0 - 1) : heap.constraints[i] = 0) <=> AllGatesSatisfied

\* a satisfying witness with nonzero public input, nonzero alpha and beta, no
\* vanishing factor and a Z that is not constant
C1_Witness ==
    /\ pc = "id_done"
    /\ AllGatesSatisfied /\ NoVanishingFactor
    /\ fullWitness[0] # 0
    /\ heap.alpha # 0 /\ heap.beta # 0
    /\ \E i \in 0..(Cardinality0 - 1) : Evaluate(heap.z, DomainPoints[i]) \notin {0, 1}
    /\ \A i \in 0..(Cardinality0 - 1) : heap.h[i] = 0

-----------------------------------------------------------------------------
(* Joining of the forked commitment tasks, under Spec *)

\* C11: once commitToLRO or commitToQuotient has returned, both of its forked
\* tasks have terminated, on every return path.
C11_AllTasksJoinedAtReturn ==
    \A c \in Calls :
        cerr[c].ret # "unset" =>
            \A t \in Tasks : TaskCall(t) = c => task[t].st = "done"

-----------------------------------------------------------------------------
(* SpecRace: the three fork points at the level of single memory accesses.  *)
(* heap.fork names the fork point: "lro" (commitToLRO), "h"                  *)
(* (commitToQuotient) or "s1" (computeLinearizedPolynomial).  hist.acc holds *)
(* the accesses <<variable, "r" or "w">> each thread has made; hist.conc[t]  *)
(* holds the accesses the calling path made after the go statement of task  *)
(* t and before receiving from its channel, which nothing orders with the   *)
(* accesses of t.  Two forked tasks are never ordered with each other.      *)

ForkPoints == {"lro", "h", "s1"}
RaceTasks == {"t0", "t1"}
TaskNo(t) == IF t = "t0" THEN 0 ELSE 1

\* the goroutines a fork point starts
ForkedAt(fp) == IF fp = "s1" THEN {"t0"} ELSE RaceTasks

SlotVar(fp, i) ==
    IF fp = "lro" THEN "proof.LRO[" \o ToString(i) \o "]" ELSE "proof.H[" \o ToString(i) \o "]"

ArgVar(fp, i) ==
    IF fp = "lro" THEN <<"bcl", "bcr", "bco">>[i + 1] ELSE <<"h1", "h2", "h3">>[i + 1]

\* A plausible slip: the two goroutines and the caller share one error variable.
ErrVarShared(i) == "err"

\* var err0, err1, err2 error
ErrVar(i) == "err" \o ToString(i)

\* proof.<slot>[i], err_i = kzg.Commit(arg_i, srs, n)
CommitAccesses(fp, i) ==
    {<<ArgVar(fp, i), "r">>, <<"srs", "r">>, <<"n", "r">>,
     <<SlotVar(fp, i), "w">>, <<ErrVar(i), "w">>}

\* lines 781-784: the body of the s1 goroutine before close(chS1)
S1TaskAccesses ==
    {<<"pk.S1Canonical", "r">>, <<"zeta", "r">>, <<"s1", "w">>, <<"s1", "r">>,
     <<"beta", "r">>, <<"lZeta", "r">>, <<"gamma", "r">>}

\* lines 787-789: the calling path while the s1 goroutine runs
S2OwnAccesses ==
    {<<"pk.S2Canonical", "r">>, <<"zeta", "r">>, <<"tmp", "w">>, <<"tmp", "r">>,
     <<"beta", "r">>, <<"rZeta", "r">>, <<"gamma", "r">>}

\* line 791, after <-chS1
S1JoinedAccesses ==
    {<<"s1", "r">>, <<"s1", "w">>, <<"tmp", "r">>, <<"zu", "r">>, <<"beta", "r">>}

\* the calling path makes the accesses A: they are not ordered with the tasks
\* that are forked and not yet received from
MainAccess(A) ==
    hist' = [hist EXCEPT !.acc["main"] = @ \cup A,
                         !.conc = [t \in RaceTasks |->
                                     IF t \in ForkedAt(heap.fork) /\ t \notin hist.joined
                                     THEN hist.conc[t] \cup A ELSE hist.conc[t]]]

InitRace ==
    /\ pc = "race_go"
    /\ spr = CircuitA
    /\ solution = <<>>
    /\ lro = NoLRO
    /\ force = FALSE
    /\ fullWitness = <<>>
    /\ proof = EmptyProof
    /\ ret = [proof |-> "unset", err |-> Nil]
    /\ fs = NewTranscript
    /\ task = [t \in RaceTasks |-> "none"]
    /\ cerr = [i \in 0..2 |-> Nil]
    /\ poly = <<>>
    /\ \E fp \in ForkPoints : heap = [fork |-> fp]
    /\ hist = [acc |-> [th \in RaceTasks \cup {"main"} |-> {}],
               conc |-> [t \in RaceTasks |-> {}],
               joined |-> {}]

\* the go statements (lines 683-690, 709-716, 780-785)
RaceFork ==
    /\ pc = "race_go"
    /\ task' = [t \in RaceTasks |-> IF t \in ForkedAt(heap.fork) THEN "ready" ELSE "none"]
    /\ pc' = "race_own"
    /\ UNCHANGED <<spr, solution, lro, force, fullWitness, proof, ret, fs, cerr, heap, poly, hist>>

\* a goroutine's body up to its close
RaceTaskBody(t) ==
    /\ task[t] = "ready"
    /\ IF heap.fork = "s1"
       THEN /\ hist' = [hist EXCEPT !.acc[t] = @ \cup S1TaskAccesses]
            /\ cerr' = cerr
       ELSE /\ hist' = [hist EXCEPT !.acc[t] = @ \cup CommitAccesses(heap.fork, TaskNo(t))]
            /\ \E ok \in BOOLEAN :
                  cerr' = [cerr EXCEPT ![TaskNo(t)] = IF ok THEN Nil ELSE "err:commit"]
    /\ task' = [task EXCEPT ![t] = "written"]
    /\ UNCHANGED <<pc, spr, solution, lro, force, fullWitness, proof, ret, fs, heap, poly>>

\* close(chCommit0), close(chCommit1), close(chS1)
RaceTaskClose(t) ==
    /\ task[t] = "written"
    /\ task' = [task EXCEPT ![t] = "closed"]
    /\ UNCHANGED <<pc, spr, solution, lro, force, fullWitness, proof, ret, fs, cerr, heap, poly, hist>>

\* lines 691-693, 717-719: the calling path's commitment and the test of err2;
\* lines 787-789: the calling path's s2
RaceOwn ==
    /\ pc = "race_own"
    /\ IF heap.fork = "s1"
       THEN /\ MainAccess(S2OwnAccesses)
            /\ cerr' = cerr
            /\ pc' = "race_recv0"
       ELSE /\ MainAccess(CommitAccesses(heap.fork, 2) \cup {<<ErrVar(2), "r">>})
            /\ \E ok \in BOOLEAN :
                  /\ cerr' = [cerr EXCEPT ![2] = IF ok THEN Nil ELSE "err:commit"]
                  /\ pc' = IF ok THEN "race_recv0" ELSE "race_caller"
    /\ UNCHANGED <<spr, solution, lro, force, fullWitness, proof, ret, fs, task, heap, poly>>

\* <-chCommit0, <-chCommit1, <-chS1
RaceReceive(t) ==
    /\ pc = "race_recv" \o ToString(TaskNo(t))
    /\ task[t] = "closed"
    /\ hist' = [hist EXCEPT !.joined = @ \cup {t}]
    /\ pc' = IF heap.fork = "s1" THEN "race_joined"
             ELSE IF t = "t0" THEN "race_recv1" ELSE "race_joined"
    /\ UNCHANGED <<spr, solution, lro, force, fullWitness, proof, ret, fs, task, cerr, heap, poly>>

\* lines 697-701, 723-727: if err0 != nil { return err0 }; return err1
\* line 791: s1.Mul(&s1, &tmp).Mul(&s1, &zu).Mul(&s1, &beta)
RaceJoined ==
    /\ pc = "race_joined"
    /\ IF heap.fork = "s1"
       THEN /\ MainAccess(S1JoinedAccesses)
            /\ pc' = "race_end"
       ELSE /\ MainAccess({<<ErrVar(0), "r">>}
                          \cup (IF cerr[0] = Nil THEN {<<ErrVar(1), "r">>} ELSE {}))
            /\ pc' = "race_caller"
    /\ UNCHANGED <<spr, solution, lro, force, fullWitness, proof, ret, fs, task, cerr, heap, poly>>

\* Prove after the call: on an error return nil, err (lines 333-335, 547-553);
\* else the three commitments are read for the next challenge (lines 343, 556)
\* and, after commitToQuotient, for the folded digest, and the third chunk of
\* h is folded in place (lines 618-636)
RaceCaller ==
    /\ pc = "race_caller"
    /\ IF \E i \in 0..2 : cerr[i] # Nil /\ (i = 2 \/ hist.joined = ForkedAt(heap.fork))
       THEN hist' = hist
       ELSE MainAccess({<<SlotVar(heap.fork, i), "r">> : i \in 0..2}
                       \cup (IF heap.fork = "h"
                             THEN {<<"h1", "r">>, <<"h2", "r">>, <<"h3", "r">>, <<"h3", "w">>}
                             ELSE {}))
    /\ pc' = "race_end"
    /\ UNCHANGED <<spr, solution, lro, force, fullWitness, proof, ret, fs, task, cerr, heap, poly>>

NextRace ==
    \/ RaceFork
    \/ \E t \in RaceTasks : RaceTaskBody(t)
    \/ \E t \in RaceTasks : RaceTaskClose(t)
    \/ RaceOwn
    \/ \E t \in RaceTasks : RaceReceive(t)
    \/ RaceJoined
    \/ RaceCaller

SpecRace == InitRace /\ [][NextRace]_vars

Conflict(a, b) == a[1] = b[1] /\ "w" \in {a[2], b[2]}

Writes(A) == {a[1] : a \in {x \in A : x[2] = "w"}}

\* C12: at the three fork points no two unordered accesses of different
\* threads touch the same variable with a write among them; each forked task
\* writes only its own slot and error variable (or s1), the calling path while
\* a task is unjoined only its own, and the calling path has read a task's
\* result only after receiving from that task's channel.
C12_NoDataRace ==
    LET fp == heap.fork
        own(t) == IF fp = "s1" THEN {"s1"} ELSE {SlotVar(fp, TaskNo(t)), "err" \o ToString(TaskNo(t))}
        mine == IF fp = "s1" THEN {"tmp"} ELSE {SlotVar(fp, 2), "err2"}
    IN  /\ \A a \in hist.acc["t0"], b \in hist.acc["t1"] : ~Conflict(a, b)
        /\ \A t \in RaceTasks : \A a \in hist.conc[t], b \in hist.acc[t] : ~Conflict(a, b)
        /\ \A t \in RaceTasks : Writes(hist.acc[t]) \subseteq (IF t \in ForkedAt(fp) THEN own(t) ELSE {})
        /\ \A t \in RaceTasks : Writes(hist.conc[t]) \subseteq mine
        /\ \A t \in ForkedAt(fp) : \A v \in own(t) :
              (<<v, "r">> \in hist.acc["main"]) => (t \in hist.joined /\ task[t] = "closed")

\* a successful commitToQuotient whose three results the caller has read, the
\* calling path having committed before either task started
C12_Witness ==
    /\ pc = "race_end"
    /\ heap.fork = "h"
    /\ hist.joined = RaceTasks
    /\ <<"proof.H[0]", "r">> \in hist.acc["main"]
    /\ <<"proof.H[1]", "w">> \in hist.acc["t1"]
    /\ <<"h3", "r">> \in hist.conc["t0"]

-----------------------------------------------------------------------------
(* SpecLzss: the LZSS compressor (lines 1-225).  Byte strings are arrays    *)
(* over 0..len-1.  The output is kept as the sequence of tokens written: a  *)
(* literal byte or a backref with its type, length and address.             *)

symbolDict == 255
symbolShort == 254
symbolLong == 253
maxInputSize == 2097152
maxDictSize == 4194304

\* math.MinInt, within the range of the model's integers
MinInt == -(2 ^ 30)

augmentDictNone(dict) == FromSeq(dict)

\* lines 50-52
augmentDict(dict) == FromSeq(dict \o <<symbolDict, symbolShort, symbolLong>>)

RECURSIVE BitsLen(_)
\* bits.Len
BitsLen(x) == IF x = 0 THEN 0 ELSE 1 + BitsLen(x \div 2)

\* lines 55-57, in uint8 arithmetic
wordAlign(a, compressionMode) ==
    ((((a % 256) + compressionMode - 1) % 256) \div compressionMode) * compressionMode % 256

newBackRefType(symbol, nbBitsAddress, nbBitsLength, dictOnly) ==
    [delimiter |-> symbol,
     nbBitsAddress |-> nbBitsAddress,
     nbBitsLength |-> nbBitsLength,
     nbBitsBackRef |-> (8 + nbBitsAddress + nbBitsLength) % 256,
     nbBytesBackRef |-> (((8 + nbBitsAddress + nbBitsLength) % 256) + 7) \div 8,
     maxAddress |-> 2 ^ nbBitsAddress,
     maxLength |-> 2 ^ nbBitsLength,
     dictOnly |-> dictOnly]

\* lines 54-62
initBackRefTypes(dictLen, compressionMode) ==
    [short |-> newBackRefType(symbolShort, wordAlign(14, compressionMode), 8, FALSE),
     long |-> newBackRefType(symbolLong, wordAlign(19, compressionMode), 8, FALSE),
     dict |-> newBackRefType(symbolDict, wordAlign(BitsLen(dictLen), compressionMode), 8, TRUE)]

NoBackref(bType) == [bType |-> bType, length |-> -1, address |-> -1]

savings(b) == IF b.length = -1 THEN MinInt ELSE 8 * b.length - b.bType.nbBitsBackRef

\* lines 179-181
canEncodeSymbol(b) == b # symbolDict /\ b # symbolShort /\ b # symbolLong

max(a, b) == IF a > b THEN a ELSE b

RECURSIVE MatchLen(_, _, _, _, _, _)
\* the number of bytes, at most maxEnd, on which s agrees with data from off on,
\* the bytes of data being taken below limit
MatchLen(data, s, off, maxEnd, limit, n) ==
    IF n < maxEnd /\ off + n < limit /\ data[off + n] = s[n]
    THEN MatchLen(data, s, off, maxEnd, limit, n + 1)
    ELSE n

\* the longest of the candidate matches <<offset, length>> of at least minEnd
\* bytes, the first of them in the text, or -1, -1
PickLongest(cands, minEnd) ==
    LET found == {p \in cands : p[2] >= minEnd}
    IN  IF found = {} THEN <<-1, -1>>
        ELSE CHOOSE p \in found :
                \A q \in found : q[2] < p[2] \/ (q[2] = p[2] /\ p[1] <= q[1])

\* suffixarray.Index.LookupLongest: the longest prefix of s, of minEnd to
\* maxEnd bytes, found in data at an offset in [rangeStart, rangeEnd), or -1, -1.
\* overlap tells whether the match may run past rangeEnd.
LookupLongest(data, s, minEnd, maxEnd, rangeStart, rangeEnd, overlap) ==
    PickLongest({<<off, MatchLen(data, s, off, maxEnd,
                                 IF overlap THEN ArrLen(data) ELSE rangeEnd, 0)>> :
                    off \in rangeStart..(rangeEnd - 1)},
                minEnd)

\* lines 198-217, with minLength and maxRefLen settled
findBackRefIn(c, data, i, bType, minLength, maxRefLen) ==
    IF i + minLength > ArrLen(data) \/ minLength > maxRefLen THEN <<-1, -1>>
    ELSE IF bType.dictOnly
         THEN LookupLongest(c.dictData, Slice(data, i, i + maxRefLen), minLength, maxRefLen,
                            0, ArrLen(c.dictData), c.overlap)
         ELSE LookupLongest(data, Slice(data, i, i + maxRefLen), minLength, maxRefLen,
                            max(0, i - bType.maxAddress), i, c.overlap)

\* A plausible slip: the default minimal length is 0, not the size of a backref.
findBackRefMinLengthZero(c, data, i, bType, minLength) ==
    findBackRefIn(c, data, i, bType,
                  IF minLength = -1 THEN 0 ELSE minLength,
                  IF i + bType.maxLength > ArrLen(data) THEN ArrLen(data) - i
                  ELSE bType.maxLength)

\* lines 193-218
findBackRef(c, data, i, bType, minLength) ==
    findBackRefIn(c, data, i, bType,
                  IF minLength = -1 THEN bType.nbBytesBackRef ELSE minLength,
                  IF i + bType.maxLength > ArrLen(data) THEN ArrLen(data) - i
                  ELSE bType.maxLength)

\* lines 36-48: the compressor, with its dictionary augmented; overlap is the
\* behaviour of its suffix arrays
NewCompressor(dict, compressionMode, overlap) ==
    LET d == augmentDict(dict)
    IN  IF ArrLen(d) > maxDictSize THEN [err |-> "dict size"]
        ELSE [err |-> Nil, dictData |-> d, compressionMode |-> compressionMode,
              overlap |-> overlap]

BackrefNames == {"bDict", "bShort", "bLong"}

TypeOf(types, name) ==
    IF name = "bDict" THEN types.dict ELSE IF name = "bShort" THEN types.short ELSE types.long

\* lines 80-82 and 85-87: a backref of a type, from the pair findBackRef returns
MakeBackref(bType, found) == [bType |-> bType, address |-> found[1], length |-> found[2]]

\* lines 84-89: the three backrefs at i
fillBackrefs(c, d, types, i, minLen) ==
    [name \in BackrefNames |->
        MakeBackref(TypeOf(types, name), findBackRef(c, d, i, TypeOf(types, name), minLen))]

\* line 88: the value fillBackrefs returns
Found(b) == ~(b.bDict.length = -1 /\ b.bShort.length = -1 /\ b.bLong.length = -1)

\* lines 90-98
bestBackref(b) ==
    IF b.bDict.length # -1 /\ savings(b.bDict) > savings(b.bShort)
       /\ savings(b.bDict) > savings(b.bLong)
    THEN b.bDict
    ELSE IF b.bShort.length # -1 /\ savings(b.bShort) > savings(b.bLong)
         THEN b.bShort
         ELSE b.bLong

\* lines 183-188: a literal, or the panic
writeByte(st, b) ==
    IF st.status # "run" THEN st
    ELSE IF ~canEncodeSymbol(b) THEN [st EXCEPT !.status = "panic"]
    ELSE [st EXCEPT !.out = Append(@, <<"lit", b>>)]

\* backref.writeTo: the delimiter, the length and the address, which for a
\* backref into the input is the distance back from i
writeTo(st, b, i) ==
    IF st.status # "run" THEN st
    ELSE [st EXCEPT !.out = Append(@, <<"ref", b.bType.delimiter, b.length,
                                        IF b.bType.dictOnly THEN b.address
                                        ELSE i - b.address - 1>>)]

\* lines 108-109 and 164-165: the backref is written at i, and i moves past it
Emit(st, best) == [writeTo(st, best, st.i) EXCEPT !.i = st.i + best.length]

\* lines 114-115, 124-125, 136-137, 151-154: a literal is written, and i moves by one
Literal(st) == [writeByte(st, st.d[st.i]) EXCEPT !.i = st.i + 1]

\* A plausible slip: the byte at i+1 is not tested before the lookahead at i+2.
look2GuardNoSymbolTest(d, i) == i + 2 < ArrLen(d)

\* line 145
look2Guard(d, i) == i + 2 < ArrLen(d) /\ canEncodeSymbol(d[i + 1])

\* lines 103-110: the byte at i is a reserved symbol, b the backrefs at i
IterateReserved(st, b) ==
    IF ~Found(b)
    THEN [st EXCEPT !.status = "could not find a backref", !.b = b, !.path = "reserved"]
    ELSE Emit([st EXCEPT !.b = b, !.path = "reserved"], bestBackref(b))

\* lines 133-142: st.i is the old i+1, b3 the backrefs one byte further
Look1Second(st, best1, b3) ==
    IF Found(b3) /\ savings(bestBackref(b3)) > savings(best1)
    THEN Emit([Literal(st) EXCEPT !.b = b3, !.path = "look1+1"], bestBackref(b3))
    ELSE Emit([st EXCEPT !.b = b3], best1)

\* lines 124-143: the backref at i+1 saves more; the byte at i is a literal
Look1Better(c, types, st, best1) ==
    IF canEncodeSymbol(st.d[st.i]) /\ st.i + 1 < ArrLen(st.d)
    THEN Look1Second(st, best1, fillBackrefs(c, st.d, types, st.i + 1, best1.length + 1))
    ELSE Emit(st, best1)

\* lines 147-160: b3 is the backrefs at i+2
Look2(st, bestAtI, b3) ==
    IF Found(b3) /\ savings(bestBackref(b3)) > savings(bestAtI)
    THEN Emit([Literal(Literal(st)) EXCEPT !.b = b3, !.path = "look2"], bestBackref(b3))
    ELSE Emit([st EXCEPT !.b = b3], bestAtI)

\* lines 121-161: b2 is the backrefs at i+1
Look1(c, types, st, bestAtI, b2) ==
    IF Found(b2)
    THEN IF savings(bestBackref(b2)) > savings(bestAtI)
         THEN Look1Better(c, types, [Literal(st) EXCEPT !.b = b2, !.path = "look1"],
                          bestBackref(b2))
         ELSE Emit([st EXCEPT !.b = b2], bestAtI)
    ELSE IF look2Guard(st.d, st.i)
         THEN Look2(st, bestAtI,
                    fillBackrefs(c, st.d, types, st.i + 2, bestAtI.length + 2))
         ELSE Emit([st EXCEPT !.b = b2], bestAtI)

\* lines 118-165: a backref was found at i
IterateBackref(c, types, st, bestAtI) ==
    IF st.i + 1 < ArrLen(st.d)
    THEN Look1(c, types, st, bestAtI,
               fillBackrefs(c, st.d, types, st.i + 1, bestAtI.length + 1))
    ELSE Emit(st, bestAtI)

\* lines 112-165: the byte at i can be a literal, b1 is the backrefs at i
IterateSymbol(c, types, st, b1) ==
    IF ~Found(b1)
    THEN [Literal(st) EXCEPT !.b = b1, !.path = "literal"]
    ELSE IterateBackref(c, types, [st EXCEPT !.b = b1, !.path = "backref"], bestBackref(b1))

\* lines 100-166: one iteration of the loop
Iterate(c, types, st) ==
    IF ~canEncodeSymbol(st.d[st.i])
    THEN IterateReserved(st, fillBackrefs(c, st.d, types, st.i, 1))
    ELSE IterateSymbol(c, types, st, fillBackrefs(c, st.d, types, st.i, -1))

\* lines 28-33
CompressionModes == {1, 2, 4, 8}

Alphabet == {97, 98, symbolDict, symbolShort, symbolLong}

MaxInputLen == 3

RECURSIVE SeqsUpTo(_, _)
SeqsUpTo(S, n) ==
    IF n = 0 THEN {<<>>}
    ELSE LET shorter == SeqsUpTo(S, n - 1)
         IN  shorter \cup {Append(s, x) : s \in {q \in shorter : Len(q) = n - 1}, x \in S}

\* longer inputs, in which a backref is found and a later one saves more, or
\* would if the byte between them were not a reserved symbol
Texts ==
    {<<97, 97, 98, 97, 98, 97, 98>>,
     <<97, 98, 97, 97, 98, 98, 97>>,
     <<97, 98, 98, 98, 98, 98, 98>>,
     <<97, symbolDict, 98, 97, 97, 98, 97>>,
     <<97, symbolDict, 97, 98, 98>>}

Dicts ==
    {<<>>,
     <<97, 97, 98, 98, 97, 98, 97, 98>>,
     <<97, symbolDict, 98, 98, 97, 97, 98, 97>>,
     <<98, symbolDict, 97, 98, 98, 97, symbolDict, 97, 97>>}

Inputs ==
    SeqsUpTo(Alphabet, MaxInputLen)
    \cup UNION {{SubSeq(x, 1, e) : e \in 1..Len(x)} : x \in Texts}

NoCompressor == [err |-> "unset"]

\* lines 72-82 and 100: the run of Compress on d as the loop is entered
StartState(d, types) ==
    [d |-> d, i |-> 0, out |-> <<>>, status |-> "run", path |-> "none",
     b |-> [bDict |-> NoBackref(types.dict), bShort |-> NoBackref(types.short),
            bLong |-> NoBackref(types.long)]]

InitLzss ==
    /\ pc = "lz_new"
    /\ spr = CircuitA
    /\ solution = <<>>
    /\ lro = NoLRO
    /\ force = FALSE
    /\ fullWitness = <<>>
    /\ proof = EmptyProof
    /\ ret = [c |-> "unset", err |-> Nil]
    /\ fs = NewTranscript
    /\ task = <<>>
    /\ cerr = <<>>
    /\ poly = <<>>
    /\ \E dict \in Dicts : \E mode \in CompressionModes : \E overlap \in BOOLEAN :
       \E d \in Inputs :
          heap = [dict |-> dict, compressionMode |-> mode, overlap |-> overlap,
                  d |-> FromSeq(d), c |-> NoCompressor, types |-> <<>>, st |-> <<>>]
    /\ hist = [iters |-> 0, prevI |-> -1, paths |-> {}]

\* lines 36-48
LzNewCompressor ==
    /\ pc = "lz_new"
    /\ LET c == NewCompressor(heap.dict, heap.compressionMode, heap.overlap)
       IN  /\ heap' = [heap EXCEPT !.c = c]
           /\ IF c.err # Nil
              THEN pc' = "lz_returned" /\ ret' = [c |-> Nil, err |-> c.err]
              ELSE pc' = "lz_compress" /\ ret' = ret
    /\ UNCHANGED <<spr, solution, lro, force, fullWitness, proof, fs, task, cerr, poly, hist>>

\* lines 67-82
LzCompressStart ==
    /\ pc = "lz_compress"
    /\ IF ArrLen(heap.d) > maxInputSize
       THEN /\ pc' = "lz_returned"
            /\ ret' = [c |-> Nil, err |-> "input size"]
            /\ heap' = heap
       ELSE LET types == initBackRefTypes(ArrLen(heap.c.dictData), heap.c.compressionMode)
            IN  /\ heap' = [heap EXCEPT !.types = types, !.st = StartState(heap.d, types)]
                /\ pc' = "lz_loop"
                /\ ret' = ret
    /\ UNCHANGED <<spr, solution, lro, force, fullWitness, proof, fs, task, cerr, poly, hist>>

\* lines 100-166: one iteration; an error return or a panic ends the run
LzLoop ==
    /\ pc = "lz_loop"
    /\ heap.st.i < ArrLen(heap.d)
    /\ LET st == Iterate(heap.c, heap.types, heap.st)
       IN  /\ heap' = [heap EXCEPT !.st = st]
           /\ hist' = [iters |-> hist.iters + 1, prevI |-> heap.st.i,
                       paths |-> hist.paths \cup {st.path}]
           /\ IF st.status = "run" THEN pc' = "lz_loop" /\ ret' = ret
              ELSE IF st.status = "panic" THEN pc' = "lz_panic" /\ ret' = ret
              ELSE pc' = "lz_returned" /\ ret' = [c |-> Nil, err |-> st.status]
    /\ UNCHANGED <<spr, solution, lro, force, fullWitness, proof, fs, task, cerr, poly>>

\* lines 168-175: the writes to the buffer cannot fail
LzReturn ==
    /\ pc = "lz_loop"
    /\ ~(heap.st.i < ArrLen(heap.d))
    /\ pc' = "lz_returned"
    /\ ret' = [c |-> heap.st.out, err |-> Nil]
    /\ UNCHANGED <<spr, solution, lro, force, fullWitness, proof, fs, task, cerr, heap, poly, hist>>

NextLzss ==
    \/ LzNewCompressor
    \/ LzCompressStart
    \/ LzLoop
    \/ LzReturn

SpecLzss == InitLzss /\ [][NextLzss]_vars

-----------------------------------------------------------------------------
(* properties of Compress *)

\* the bytes of the input a token of the output stands for
TokenLen(tok) == IF tok[1] = "lit" THEN 1 ELSE tok[3]

RECURSIVE Covered(_)
\* the bytes of the input the tokens of out stand for
Covered(out) ==
    IF out = <<>> THEN 0
    ELSE Covered(SubSeq(out, 1, Len(out) - 1)) + TokenLen(out[Len(out)])

\* the index in the input at which the k-th token of out was written
TokenStart(out, k) == Covered(SubSeq(out, 1, k - 1))

InCompress == pc \in {"lz_loop", "lz_returned", "lz_panic"} /\ heap.st # <<>>

\* the places of the input that hold a reserved symbol
Reserved(d) == {p \in DOMAIN d : ~canEncodeSymbol(d[p])}

\* C13: Compress on a Compressor that NewCompressor made never returns the
\* error "could not find a backref": at a reserved byte fillBackrefs(i, 1)
\* finds a backref, the dictionary holding all three reserved symbols.
C13_BackrefAlwaysFound ==
    /\ ret.err # "could not find a backref"
    /\ InCompress =>
          /\ heap.st.status # "could not find a backref"
          /\ {heap.st.d[p] : p \in Reserved(heap.st.d)}
                \subseteq {heap.c.dictData[k] : k \in DOMAIN heap.c.dictData}
          /\ heap.st.path = "reserved" => Found(heap.st.b)

\* a run on an input with a reserved symbol and the empty dictionary has
\* returned its output, the symbol encoded by a backref
C13_Witness ==
    /\ pc = "lz_returned"
    /\ ret.err = Nil
    /\ heap.dict = <<>>
    /\ "reserved" \in hist.paths
    /\ \E k \in 1..Len(ret.c) : ret.c[k][1] = "ref" /\ ret.c[k][2] = symbolDict

\* C14: in the loop of Compress 0 <= i <= len(d), i grows on every iteration
\* (so there are no more iterations than bytes and the loop ends), every
\* backref written has a length of 1 at least and ends within d, and on a
\* successful return the literals and the lengths of the backrefs add up to len(d).
C14_LoopProgress ==
    InCompress =>
        /\ 0 <= heap.st.i
        /\ heap.st.i <= ArrLen(heap.st.d)
        /\ hist.iters > 0 => hist.prevI < heap.st.i
        /\ hist.iters <= heap.st.i
        /\ \A k \in 1..Len(heap.st.out) :
              /\ TokenLen(heap.st.out[k]) >= 1
              /\ TokenStart(heap.st.out, k) + TokenLen(heap.st.out[k]) <= ArrLen(heap.st.d)
        /\ (pc = "lz_returned" /\ ret.err = Nil) =>
              /\ ret.c = heap.st.out
              /\ Covered(ret.c) = ArrLen(heap.st.d)

\* a run that wrote two literals and then a backref of a later, better match
\* has returned its output
C14_Witness ==
    /\ pc = "lz_returned"
    /\ ret.err = Nil
    /\ hist.iters >= 1
    /\ "look1+1" \in hist.paths
    /\ \E k \in 1..Len(ret.c) : ret.c[k][1] = "ref" /\ ret.c[k][3] > 1
    /\ \E k \in 1..Len(ret.c) : ret.c[k][1] = "lit"

\* C15: writeByte is called only on bytes that canEncodeSymbol accepts, so
\* its panic is not reached, and every reserved byte of the input is inside a
\* backref: each literal of the output is the byte of the input at its place,
\* and that byte is not a reserved symbol.
C15_NoPanic ==
    /\ pc # "lz_panic"
    /\ InCompress =>
          /\ heap.st.status # "panic"
          /\ \A k \in 1..Len(heap.st.out) :
                heap.st.out[k][1] = "lit" =>
                    /\ canEncodeSymbol(heap.st.out[k][2])
                    /\ heap.st.out[k][2] = heap.st.d[TokenStart(heap.st.out, k)]
                    /\ TokenStart(heap.st.out, k) \notin Reserved(heap.st.d)

\* a run has returned on an input in which a reserved symbol follows a byte
\* at which a backref was found, with a longer match two bytes on, and wrote
\* that first backref over the symbol; another wrote literals
C15_Witness ==
    /\ pc = "lz_returned"
    /\ ret.err = Nil
    /\ Reserved(heap.st.d) # {}
    /\ \E k \in 1..Len(ret.c) :
          /\ ret.c[k][1] = "ref"
          /\ \E p \in Reserved(heap.st.d) :
                /\ TokenStart(ret.c, k) < p
                /\ p < TokenStart(ret.c, k) + TokenLen(ret.c[k])
    /\ \E k \in 1..Len(ret.c) : ret.c[k][1] = "lit"

====
